---- MODULE Spec2Model ----
(***************************************************************************)
(* Verification model of the bitservice coordination fabric:               *)
(*   - the per-relying-party read/write queue actor of bitservice-server   *)
(*     (rw_queue.rs),                                                      *)
(*   - the request handlers of the three bitservice peers                  *)
(*     (ban_service.rs, api/v1.rs) with the map lock and the database,     *)
(*   - the session rendezvous registry (ws-mpc-net, tcp-mpc-net).          *)
(*                                                                         *)
(* The oblivious map is an external collaborator.  Its state at a peer is  *)
(* represented by the log of the write requests whose update has been      *)
(* applied to it; the content of a key and the root of the map are         *)
(* functions of that log.                                                  *)
(***************************************************************************)
EXTENDS Naturals, Integers, Sequences, FiniteSets, TLC

(* ------------------------------ bounds --------------------------------- *)
\* request ids (client requests and prunes) of one behaviour
MaxReqs == 3
\* failures of one behaviour that no earlier failure has caused
MaxFaults == 1
\* number of distinct user keys
MaxKey == 1
\* largest configured prune_write_interval (0: no prune is ever sent)
MaxInterval == 2
\* largest configured max_num_read_tasks
MaxReadTasks == 2
\* number of session ids of the registry model
MaxSession == 2
\* number of get / insert calls of one registry behaviour
MaxCalls == 4
\* number of distinct response bodies a peer can answer with
MaxBody == 2
\* relying-party ids a client can name are 0..MaxRp
MaxRp == 2
\* number of requests the coordinator's API receives
MaxApi == 3
\* the modulus of the scalar field, scaled down: field elements are 0..FieldP-1
FieldP == 3
\* each public input of a write proof is one of 0..MaxInput
MaxInput == 1
\* a payload of the transport has 0..MaxLen bytes
MaxLen == 2
\* number of send / recv / get_connection_stats calls on one transport
MaxNetCalls == 3
\* number of messages that arrive on one connection of the transport
MaxArrive == 1
\* the keys of the map of the persistence model are 1..MaxDbKey
MaxDbKey == 3
\* number of times the peer process is started
MaxBoots == 3
\* Sends on, and messages arriving at, one transport: two more than a channel holds.
MaxPipe == 34
\* Payloads one peer sends to its neighbour, end to end.
MaxWire == 4

(* ------------------------- program constants --------------------------- *)
\* mpsc::channel(32) of the queue actor
QueueCap == 32
\* capacity of each channel between a transport and its tasks (mpsc::channel(32))
NetCap == 32

Ids == 1..MaxReqs
Keys == 1..MaxKey
Peers == {0, 1, 2}
Prev3(p) == (p + 2) % 3

VARIABLES
    \* ---- coordinator: RpRwQueue ----
    prune_write_interval, \* configuration, fixed at RpRwQueue::new
    max_num_read_tasks,   \* configuration, fixed at RpRwQueue::new
    kind,        \* kind[i]: "None" (id unused), "Read", "Ban", "Unban", "Prune"
    key,         \* key[i]: the key of request i (0 for none / prune)
    nextId,      \* next fresh request id (Uuid::new_v4)
    queue,       \* the mpsc channel: sequence of request ids
    apc,         \* position of the actor loop
    cur,         \* the message the actor is handling (0: none)
    read_tasks,  \* the JoinSet of spawned read tasks
    reads,       \* the JoinSet taken by the write branch (std::mem::take)
    rstat,       \* rstat[i]: state of read task i: "none","spawned","sent","done"
    prune_write_counter,
    fan,         \* fan[i][p]: the HTTP request for i to peer p
    result,      \* result[i]: what the one-shot channel of i received
    \* ---- peers ----
    hpc,         \* hpc[p][i]: position of the handler of request i at peer p
    lock,        \* lock[p]: the RwLock of the map: [writer, readers]
    oblivious_map, \* oblivious_map[p]: in-memory map (log of applied writes)
    db,          \* db[p]: the row id = 0 of table map (log of applied writes)
    resp,        \* resp[i][p]: the state of the map a read response was made of
    faults,      \* number of failures that no earlier failure has caused
    token,       \* token[p][i]: the CancellationToken of the handler of i at p
    \* ---- session registry ----
    sessions,    \* sessions[id]: the entry of the HashMap, or Absent
    calls,       \* calls[c]: call c of get / insert and what it returned
    sess_mutex,  \* the call that holds the guard of the registry's mutex, 0: none
    \* ---- one call of do_peer_read / ban / unban and its post_to_peers ----
    bundle,      \* [op, id, requests]: the operation, the request id, the client's bundle
    delivered,   \* delivered[p]: the request peer p has been sent
    answers,     \* answers[p]: what the send() to peer p came back with
    posted,      \* what post_to_peers returned
    \* ---- the coordinator's API in front of its queues ----
    rp_bitservices, \* AppState.rp_bitservices: the configured rp ids
    rp_queue,    \* rp_queue[rp]: the requests waiting in the channel of rp
    rp_actor,    \* rp_actor[rp]: where the actor of rp's queue is, and its write
    contacted,   \* the requests for which the peers were contacted
    api_log,     \* api_log[c]: request c of the API and its response
    \* ---- one call of the client library ----
    client_op,   \* "read", "ban" or "unban"
    server_res,  \* what the coordinator answered the client's POST with
    peer_res,    \* peer_res[p]: the per-peer response p of the answer
    client_out,  \* what the call returned
    \* ---- the transport of one party (WebSocketNetwork, TcpNetwork) ----
    send_ch,     \* send_ch[q]: lengths of the payloads queued for the sender task
    recv_ch,     \* recv_ch[q]: lengths of the payloads (-1: an Err) queued by the reader task
    net_tasks,   \* the sender and reader tasks that are still running
    arrived,     \* arrived[q]: messages the reader task of q has taken off the socket
    sent_bytes,  \* sent_bytes[q]: the AtomicUsize next to the sender of q
    recv_bytes,  \* recv_bytes[q]: the AtomicUsize next to the receiver of q
    net_log,     \* net_log[c]: call c on the transport and what it returned
    \* ---- one peer and its database over restarts ----
    map_table,   \* the rows of table map: records [id, data]
    live_map,    \* [up, map]: whether the peer serves, and its in-memory map
    last_stored, \* [done, map]: the argument of the last store_map that returned Ok
    boots,       \* number of calls of BanService::new
    \* ---- one handler of the peer's API up to the map lock ----
    dec_req,     \* [op, payloads]: the operation and the state of each field's payload
    dec_pc,      \* [at, n]: "decode" of field n, "connect", "wait_prev", "lock", "exec", "returned"
    dec_out,     \* what the handler returned
    dec_done,    \* what the handler has done: "connect", "session", "lock"
    \* ---- one transport and one of its two neighbours, payload by payload ----
    tx_ch,       \* the send channel: the payloads queued for the sender task
    tx_log,      \* tx_log[n]: "ok", "err" or "wait" (blocked) for the n-th send, of payload n
    tx_wire,     \* the payloads the sender task has written to the socket
    rx_sock,     \* number of messages the reader task has taken off the socket
    rx_hold,     \* the item the reader task waits to put on the full recv channel, -1: none
    rx_ch,       \* the recv channel: Ok(payload n) as n, Err("invalid ws message") as 0,
                 \* the Err of a socket error as -2
    rx_got,      \* what the recv calls returned: n, 0 or -2, and -1: "receiver sender dropped"
    pipe_tasks,  \* which of "sender" and "reader" still run
    pipe_token,  \* the transport's CancellationToken is cancelled
    pipe_open,   \* the transport has not been dropped
    \* ---- init_ws_mpc_nets of one request at the three peers ----
    rv_pc,       \* rv_pc[p]: "connect", "get0", "wait0", "get1", "wait1", "done" or "err"
    rv_fwd,      \* rv_fwd[p]: the sessions (0, 1) whose ws_connect to the successor returned
    rv_fly,      \* rv_fly[p]: the sessions whose upgrade at p has not yet run insert
    rv_reg,      \* rv_reg[p][s]: the entry of session s in p's registry
    rv_bwd       \* rv_bwd[p]: the sessions whose stream from the predecessor p has got

coordVars == <<prune_write_interval, max_num_read_tasks, kind, key, nextId, queue, apc, cur, read_tasks, reads, rstat,
               prune_write_counter, fan, result>>
peerVars == <<hpc, lock, oblivious_map, db, resp, faults, token>>
sessVars == <<sessions, calls, sess_mutex>>
postVars == <<bundle, delivered, answers, posted>>
apiVars == <<rp_bitservices, rp_queue, rp_actor, contacted, api_log>>
clientVars == <<client_op, server_res, peer_res, client_out>>
netVars == <<send_ch, recv_ch, net_tasks, arrived, sent_bytes, recv_bytes, net_log>>
dbVars == <<map_table, live_map, last_stored, boots>>
decVars == <<dec_req, dec_pc, dec_out, dec_done>>
pipeVars == <<tx_ch, tx_log, tx_wire, rx_sock, rx_hold, rx_ch, rx_got, pipe_tasks, pipe_token, pipe_open>>
rvVars == <<rv_pc, rv_fwd, rv_fly, rv_reg, rv_bwd>>
fnVars == <<postVars, apiVars, clientVars, netVars, dbVars, decVars, pipeVars, rvVars>>
vars == <<prune_write_interval, max_num_read_tasks, kind, key, nextId, queue, apc, cur, read_tasks, reads, rstat,
          prune_write_counter, fan, result,
          hpc, lock, oblivious_map, db, resp, faults, token,
          sessions, calls, sess_mutex,
          bundle, delivered, answers, posted,
          rp_bitservices, rp_queue, rp_actor, contacted, api_log,
          client_op, server_res, peer_res, client_out,
          send_ch, recv_ch, net_tasks, arrived, sent_bytes, recv_bytes, net_log,
          map_table, live_map, last_stored, boots,
          dec_req, dec_pc, dec_out, dec_done,
          tx_ch, tx_log, tx_wire, rx_sock, rx_hold, rx_ch, rx_got, pipe_tasks, pipe_token, pipe_open,
          rv_pc, rv_fwd, rv_fly, rv_reg, rv_bwd>>

IsWrite(i) == kind[i] \in {"Ban", "Unban"}
IsRead(i) == kind[i] = "Read"
IsPrune(i) == kind[i] = "Prune"

(* ======================= coordinator: rw_queue.rs ====================== *)

\* RpRwQueue::new but for max_num_read_tasks: an empty channel and JoinSet,
\* the counter at 0, the actor at rx.recv().
CoordNew ==
    /\ prune_write_interval \in 0..MaxInterval
    /\ kind = [i \in Ids |-> "None"]
    /\ key = [i \in Ids |-> 0]
    /\ nextId = 1
    /\ queue = <<>>
    /\ apc = "recv"
    /\ cur = 0
    /\ read_tasks = {}
    /\ reads = {}
    /\ rstat = [i \in Ids |-> "none"]
    /\ prune_write_counter = 0
    /\ fan = [i \in Ids |-> [p \in Peers |-> "none"]]
    /\ result = [i \in Ids |-> "none"]

CoordInit ==
    /\ max_num_read_tasks \in 1..MaxReadTasks
    /\ CoordNew

\* Writes accepted by the channel whose counter increment is still to come.
PendingWrites ==
    Cardinality({n \in 1..Len(queue) : IsWrite(queue[n])})
        + (IF cur # 0 /\ apc \in {"join_all", "write"} THEN 1 ELSE 0)

\* Prune request ids the accepted writes (and `extra` more) will still mint.
PrunesToCome(extra) ==
    IF prune_write_interval = 0 THEN 0
    ELSE ((prune_write_counter % prune_write_interval) + PendingWrites + extra)
            \div prune_write_interval

\* RpRwQueue::read / ban / unban: mint a request id and send the message on
\* the channel.  A behaviour has MaxReqs ids: a request is taken only while the
\* ids left cover it and the prunes the writes in the channel will mint.
Submit(k, ky) ==
    /\ apc = "recv"
    /\ Len(queue) < QueueCap
    /\ nextId + PrunesToCome(IF k = "Read" THEN 0 ELSE 1) <= MaxReqs
    /\ kind' = [kind EXCEPT ![nextId] = k]
    /\ key' = [key EXCEPT ![nextId] = ky]
    /\ queue' = Append(queue, nextId)
    /\ nextId' = nextId + 1
    /\ UNCHANGED <<prune_write_interval, max_num_read_tasks, apc, cur,
                   read_tasks, reads, rstat, prune_write_counter, fan, result>>
    /\ UNCHANGED peerVars
    /\ UNCHANGED sessVars
    /\ UNCHANGED fnVars

\* read_tasks.spawn(...): the task is in the JoinSet, not yet polled.
SpawnRead(i, tasks) ==
    /\ read_tasks' = tasks \cup {i}
    /\ rstat' = [rstat EXCEPT ![i] = "spawned"]

\* rx.recv() returns a Read: lines 71-100.  At capacity the actor first
\* awaits join_next().
ActorRecvRead ==
    /\ apc = "recv"
    /\ queue # <<>>
    /\ IsRead(Head(queue))
    /\ queue' = Tail(queue)
    /\ IF Cardinality(read_tasks) = max_num_read_tasks
         THEN /\ apc' = "join_next"
              /\ cur' = Head(queue)
              /\ UNCHANGED <<read_tasks, rstat>>
         ELSE /\ SpawnRead(Head(queue), read_tasks)
              /\ UNCHANGED <<apc, cur>>
    /\ UNCHANGED <<prune_write_interval, max_num_read_tasks, kind, key, nextId, reads, prune_write_counter, fan, result>>
    /\ UNCHANGED peerVars
    /\ UNCHANGED sessVars
    /\ UNCHANGED fnVars

\* Mutant of ActorJoinNext: join_next returns a task that has not finished.
ActorJoinNextAtOnce ==
    /\ apc = "join_next"
    /\ IF read_tasks = {}
         THEN SpawnRead(cur, {})
         ELSE \E t \in read_tasks : SpawnRead(cur, read_tasks \ {t})
    /\ apc' = "recv"
    /\ cur' = 0
    /\ UNCHANGED <<prune_write_interval, max_num_read_tasks, kind, key, nextId, queue, reads, prune_write_counter, fan,
                   result>>
    /\ UNCHANGED peerVars
    /\ UNCHANGED sessVars
    /\ UNCHANGED fnVars

\* read_tasks.join_next().await returns: with a finished task, which leaves
\* the set, or at once with None when the set is empty.  Then the read is
\* spawned.
ActorJoinNext ==
    /\ apc = "join_next"
    /\ IF read_tasks = {}
         THEN SpawnRead(cur, {})
         ELSE \E t \in read_tasks :
                /\ rstat[t] = "done"
                /\ SpawnRead(cur, read_tasks \ {t})
    /\ apc' = "recv"
    /\ cur' = 0
    /\ UNCHANGED <<prune_write_interval, max_num_read_tasks, kind, key, nextId, queue, reads, prune_write_counter, fan,
                   result>>
    /\ UNCHANGED peerVars
    /\ UNCHANGED sessVars
    /\ UNCHANGED fnVars

\* rx.recv() returns a Write: lines 101-105, std::mem::take(&mut read_tasks)
\* and the start of reads.join_all().
ActorRecvWrite ==
    /\ apc = "recv"
    /\ queue # <<>>
    /\ IsWrite(Head(queue))
    /\ queue' = Tail(queue)
    /\ cur' = Head(queue)
    /\ reads' = read_tasks
    /\ read_tasks' = {}
    /\ apc' = "join_all"
    /\ UNCHANGED <<prune_write_interval, max_num_read_tasks, kind, key, nextId, rstat, prune_write_counter, fan, result>>
    /\ UNCHANGED peerVars
    /\ UNCHANGED sessVars
    /\ UNCHANGED fnVars

\* Mutant of JoinAllReady: only reads that succeeded let join_all return.
JoinAllReadyOnSuccess(tasks) ==
    \A t \in tasks : rstat[t] = "done" /\ result[t] = "ok"

\* reads.join_all().await is ready: every task of the taken set has finished.
JoinAllReady(tasks) == \A t \in tasks : rstat[t] = "done"

\* post_to_peers, first poll of tokio::join!: the three requests are sent.
SendToPeers(i) == fan' = [fan EXCEPT ![i] = [p \in Peers |-> "sent"]]

\* join_all returned; do_peer_ban / do_peer_unban sends the write: 105-114.
ActorJoinAll ==
    /\ apc = "join_all"
    /\ JoinAllReady(reads)
    /\ reads' = {}
    /\ SendToPeers(cur)
    /\ apc' = "write"
    /\ UNCHANGED <<prune_write_interval, max_num_read_tasks, kind, key, nextId, queue, cur, read_tasks, rstat,
                   prune_write_counter, result>>
    /\ UNCHANGED peerVars
    /\ UNCHANGED sessVars
    /\ UNCHANGED fnVars

\* Mutant of FanOutDone: the fan-out returns with the first answer.
FanOutDoneFirst(i) == \E p \in Peers : fan[i][p] \in {"ok", "err"}

\* post_to_peers: the three sends of tokio::join! have all returned.
FanOutDone(i) == \A p \in Peers : fan[i][p] \in {"ok", "err"}

\* Mutant of FanOutResult: one peer's Ok makes the fan-out Ok.
FanOutResultAny(i) ==
    IF \E p \in Peers : fan[i][p] = "ok" THEN "ok" ELSE "err"

\* post_to_peers: Ok exactly when no send failed and every status is 2xx.
FanOutResult(i) ==
    IF \A p \in Peers : fan[i][p] = "ok" THEN "ok" ELSE "err"

\* Mutant of ActorWriteDone: a failed write drops its one-shot sender unused.
ActorWriteDoneOkOnly ==
    /\ apc = "write"
    /\ FanOutDone(cur)
    /\ result' = IF FanOutResult(cur) = "ok" THEN [result EXCEPT ![cur] = "ok"] ELSE result
    /\ IF prune_write_counter + 1 = prune_write_interval
         THEN /\ nextId <= MaxReqs
              /\ kind' = [kind EXCEPT ![nextId] = "Prune"]
              /\ SendToPeers(nextId)
              /\ cur' = nextId
              /\ nextId' = nextId + 1
              /\ apc' = "prune"
         ELSE /\ cur' = 0
              /\ apc' = "recv"
              /\ UNCHANGED <<kind, nextId, fan>>
    /\ prune_write_counter' = prune_write_counter + 1
    /\ UNCHANGED <<prune_write_interval, max_num_read_tasks, key, queue,
                   read_tasks, reads, rstat>>
    /\ UNCHANGED peerVars
    /\ UNCHANGED sessVars
    /\ UNCHANGED fnVars

\* The write fan-out returned: the result goes to the one-shot channel, the
\* prune counter is incremented and, at the interval, the prune is sent.
ActorWriteDone ==
    /\ apc = "write"
    /\ FanOutDone(cur)
    /\ result' = [result EXCEPT ![cur] = FanOutResult(cur)]
    /\ IF prune_write_counter + 1 = prune_write_interval
         THEN /\ nextId <= MaxReqs
              /\ kind' = [kind EXCEPT ![nextId] = "Prune"]
              /\ SendToPeers(nextId)
              /\ cur' = nextId
              /\ nextId' = nextId + 1
              /\ apc' = "prune"
         ELSE /\ cur' = 0
              /\ apc' = "recv"
              /\ UNCHANGED <<kind, nextId, fan>>
    /\ prune_write_counter' = prune_write_counter + 1
    /\ UNCHANGED <<prune_write_interval, max_num_read_tasks, key, queue,
                   read_tasks, reads, rstat>>
    /\ UNCHANGED peerVars
    /\ UNCHANGED sessVars
    /\ UNCHANGED fnVars

\* Mutant of ActorPruneDone: the actor does not await the prune fan-out.
ActorPruneDoneUnawaited ==
    /\ apc = "prune"
    /\ prune_write_counter' = 0
    /\ cur' = 0
    /\ apc' = "recv"
    /\ UNCHANGED <<prune_write_interval, max_num_read_tasks, kind, key, nextId, queue, read_tasks, reads, rstat, fan,
                   result>>
    /\ UNCHANGED peerVars
    /\ UNCHANGED sessVars
    /\ UNCHANGED fnVars

\* Mutant of ActorPruneDone: the counter is reset only by a prune that succeeded.
ActorPruneDoneKeepsCount ==
    /\ apc = "prune"
    /\ FanOutDone(cur)
    /\ prune_write_counter' = IF FanOutResult(cur) = "ok" THEN 0 ELSE prune_write_counter
    /\ cur' = 0
    /\ apc' = "recv"
    /\ UNCHANGED <<prune_write_interval, max_num_read_tasks, kind, key, nextId, queue, read_tasks, reads, rstat, fan,
                   result>>
    /\ UNCHANGED peerVars
    /\ UNCHANGED sessVars
    /\ UNCHANGED fnVars

\* do_peer_prune returned (Ok or Err, both only logged): the counter is reset.
ActorPruneDone ==
    /\ apc = "prune"
    /\ FanOutDone(cur)
    /\ prune_write_counter' = 0
    /\ cur' = 0
    /\ apc' = "recv"
    /\ UNCHANGED <<prune_write_interval, max_num_read_tasks, kind, key, nextId, queue, read_tasks, reads, rstat, fan,
                   result>>
    /\ UNCHANGED peerVars
    /\ UNCHANGED sessVars
    /\ UNCHANGED fnVars

\* A spawned read task is polled: do_peer_read sends the three requests.
ReadTaskStart(i) ==
    /\ rstat[i] = "spawned"
    /\ rstat' = [rstat EXCEPT ![i] = "sent"]
    /\ SendToPeers(i)
    /\ UNCHANGED <<prune_write_interval, max_num_read_tasks, kind, key, nextId, queue, apc, cur, read_tasks, reads,
                   prune_write_counter, result>>
    /\ UNCHANGED peerVars
    /\ UNCHANGED sessVars
    /\ UNCHANGED fnVars

\* The read fan-out returned: the task sends the result and finishes.
ReadTaskDone(i) ==
    /\ rstat[i] = "sent"
    /\ FanOutDone(i)
    /\ result' = [result EXCEPT ![i] = FanOutResult(i)]
    /\ rstat' = [rstat EXCEPT ![i] = "done"]
    /\ UNCHANGED <<prune_write_interval, max_num_read_tasks, kind, key, nextId, queue, apc, cur, read_tasks, reads,
                   prune_write_counter, fan>>
    /\ UNCHANGED peerVars
    /\ UNCHANGED sessVars
    /\ UNCHANGED fnVars

(* ============ peers: ban_service.rs, api/v1.rs, repository.rs ========== *)

\* BanService::new: the map is loaded from the database or, when there is no
\* row, the default map is created and stored: lines 58-66.
PeerInit ==
    /\ hpc = [p \in Peers |-> [i \in Ids |-> "idle"]]
    /\ lock = [p \in Peers |-> [writer |-> 0, readers |-> {}]]
    /\ oblivious_map = [p \in Peers |-> <<>>]
    /\ db = [p \in Peers |-> <<>>]
    /\ resp = [i \in Ids |-> [p \in Peers |-> <<>>]]
    /\ faults = 0
    /\ token = [p \in Peers |-> [i \in Ids |-> "none"]]

\* Mutant of Lookup: a key without an entry reads as banned.
RECURSIVE LookupDefaultBanned(_, _)
LookupDefaultBanned(m, ky) ==
    IF m = <<>> THEN TRUE
    ELSE IF key[m[Len(m)]] = ky THEN kind[m[Len(m)]] = "Ban"
    ELSE LookupDefaultBanned(SubSeq(m, 1, Len(m) - 1), ky)

\* The value of key ky in a map with update log m: the value written by the
\* last ban (TRUE) or unban (FALSE) of ky, not banned when there is none.
RECURSIVE Lookup(_, _)
Lookup(m, ky) ==
    IF m = <<>> THEN FALSE
    ELSE IF key[m[Len(m)]] = ky THEN kind[m[Len(m)]] = "Ban"
    ELSE Lookup(SubSeq(m, 1, Len(m) - 1), ky)

\* The lock guard of request i at peer p is dropped.
Unlocked(p, i) ==
    [lock EXCEPT ![p] = [writer |-> IF @.writer = i THEN 0 ELSE @.writer,
                         readers |-> @.readers \ {i}]]

\* The handler of i at p is over (st: "done_ok" or "done_err"): its lock
\* guard, if it holds one, is dropped, and its response, if the caller still
\* waits for one, reaches the caller's send().
Finish(p, i, st) ==
    /\ hpc' = [hpc EXCEPT ![p][i] = st]
    /\ lock' = Unlocked(p, i)
    /\ fan' = IF fan[i][p] = "sent"
                THEN [fan EXCEPT ![i][p] = IF st = "done_ok" THEN "ok" ELSE "err"]
                ELSE fan

\* Peer q takes no part in round i any more: its handler returned an error or
\* was dropped, or the coordinator gave the request up before q received it.
Gone(q, i) ==
    \/ hpc[q][i] = "done_err"
    \/ hpc[q][i] = "idle" /\ fan[i][q] = "err"

\* A failure of its own: one of the MaxFaults failures of a behaviour that no
\* earlier failure explains.
Fault ==
    /\ faults < MaxFaults
    /\ faults' = faults + 1

\* A failure in round i at a handler that waits for peer(s) qs: the
\* consequence of a peer of qs being gone, or else a failure of its own.
FaultAfter(qs, i) ==
    IF \E q \in qs : Gone(q, i) THEN UNCHANGED faults ELSE Fault

coordRest == <<prune_write_interval, max_num_read_tasks, kind, key, nextId, queue, apc, cur, read_tasks, reads,
               rstat, prune_write_counter, result>>

\* RwLock::read() can return: no writer holds the lock.
CanRead(p) == lock[p].writer = 0

\* Mutant of CanWrite: write() does not wait for the readers.
CanWriteOverReaders(p) == lock[p].writer = 0

\* RwLock::write() can return: no writer and no reader holds the lock.
CanWrite(p) == lock[p].writer = 0 /\ lock[p].readers = {}

\* The lock acquisition of request i at p can return: read() for a read,
\* write() for ban, unban and prune.
CanLock(p, i) == IF IsRead(i) THEN CanRead(p) ELSE CanWrite(p)

\* The guard of request i at p is taken.
Locked(p, i) ==
    IF IsRead(i) THEN [lock EXCEPT ![p].readers = @ \cup {i}]
    ELSE [lock EXCEPT ![p].writer = i]

\* Mutant of PeerRecv: read, ban and unban take the map lock before
\* init_ws_mpc_nets, as prune does.
PeerRecvLocksFirst(p, i) ==
    /\ fan[i][p] = "sent"
    /\ hpc[p][i] = "idle"
    /\ IF CanLock(p, i)
         THEN /\ hpc' = [hpc EXCEPT ![p][i] = "wait_prev"]
              /\ lock' = Locked(p, i)
         ELSE /\ hpc' = [hpc EXCEPT ![p][i] = "lock"]
              /\ UNCHANGED lock
    /\ token' = IF hpc'[p][i] = "wait_prev" THEN [token EXCEPT ![p][i] = "live"] ELSE token
    /\ UNCHANGED <<oblivious_map, db, resp, faults>>
    /\ UNCHANGED coordVars
    /\ UNCHANGED sessVars
    /\ UNCHANGED fnVars

\* The peer's HTTP server hands request i to its handler.  read / ban / unban
\* decode the payload and start init_ws_mpc_nets, where both ws_connect calls
\* return Ok: the successor's registry receives the two streams of round i.
\* prune first takes the write lock (api/v1.rs line 242): it has it at once
\* when the lock is free and then connects, else it is suspended in write().
PeerRecv(p, i) ==
    /\ fan[i][p] = "sent"
    /\ hpc[p][i] = "idle"
    /\ IF IsPrune(i)
         THEN IF CanWrite(p)
                THEN /\ hpc' = [hpc EXCEPT ![p][i] = "wait_prev"]
                     /\ lock' = Locked(p, i)
                ELSE /\ hpc' = [hpc EXCEPT ![p][i] = "lock"]
                     /\ UNCHANGED lock
         ELSE /\ hpc' = [hpc EXCEPT ![p][i] = "wait_prev"]
              /\ UNCHANGED lock
    /\ token' = IF hpc'[p][i] = "wait_prev" THEN [token EXCEPT ![p][i] = "live"] ELSE token
    /\ UNCHANGED <<oblivious_map, db, resp, faults>>
    /\ UNCHANGED coordVars
    /\ UNCHANGED sessVars
    /\ UNCHANGED fnVars

\* init_ws_mpc_nets: a ws_connect failed (lines 279-280) and the handler
\* returns the error.  prune connects once it has the write lock, which it
\* drops again.
PeerConnectFail(p, i) ==
    /\ fan[i][p] = "sent"
    /\ hpc[p][i] \in (IF IsPrune(i) THEN {"idle", "lock"} ELSE {"idle"})
    /\ IsPrune(i) => CanWrite(p)
    /\ Fault
    /\ Finish(p, i, "done_err")
    /\ token' = [token EXCEPT ![p][i] = "live"]
    /\ UNCHANGED <<oblivious_map, db, resp>>
    /\ UNCHANGED coordRest
    /\ UNCHANGED sessVars
    /\ UNCHANGED fnVars

\* Peer q has opened its two streams of round i to its successor, and has not
\* closed them by returning an error: its handler is past its ws_connect
\* calls.
Connected(q, i) ==
    IF IsPrune(i) THEN hpc[q][i] \in {"wait_prev", "store", "done_ok"}
    ELSE hpc[q][i] \in {"wait_prev", "lock", "exec", "store", "done_ok"}

\* init_ws_mpc_nets: both gets returned the predecessor's streams and the two
\* networks are built (lines 283-304).  read / ban / unban then take the map
\* lock: they have it at once and enter block_in_place when it is free, else
\* they are suspended in read() / write().  prune, which holds the lock, goes
\* on to store_map (its MPC round is commented out).
PeerGetPrev(p, i) ==
    /\ hpc[p][i] = "wait_prev"
    /\ Connected(Prev3(p), i)
    /\ IF IsPrune(i)
         THEN /\ hpc' = [hpc EXCEPT ![p][i] = "store"]
              /\ UNCHANGED lock
         ELSE IF CanLock(p, i)
                THEN /\ hpc' = [hpc EXCEPT ![p][i] = "exec"]
                     /\ lock' = Locked(p, i)
                ELSE /\ hpc' = [hpc EXCEPT ![p][i] = "lock"]
                     /\ UNCHANGED lock
    /\ token' = IF IsPrune(i) THEN [token EXCEPT ![p][i] = "cancelled"] ELSE token
    /\ UNCHANGED <<oblivious_map, db, resp, faults>>
    /\ UNCHANGED coordVars
    /\ UNCHANGED sessVars
    /\ UNCHANGED fnVars

\* init_ws_mpc_nets: prev_peer_wait_timeout elapsed before the predecessor
\* connected (line 289).
PeerPrevTimeout(p, i) ==
    /\ hpc[p][i] = "wait_prev"
    /\ ~Connected(Prev3(p), i)
    /\ FaultAfter({Prev3(p)}, i)
    /\ Finish(p, i, "done_err")
    /\ UNCHANGED token
    /\ UNCHANGED <<oblivious_map, db, resp>>
    /\ UNCHANGED coordRest
    /\ UNCHANGED sessVars
    /\ UNCHANGED fnVars

\* A suspended self.oblivious_map.read().await / .write().await returns.
\* read, ban and unban enter block_in_place; prune goes on to
\* init_ws_mpc_nets, where both ws_connect calls return Ok.
PeerAcquire(p, i) ==
    /\ hpc[p][i] = "lock"
    /\ CanLock(p, i)
    /\ lock' = Locked(p, i)
    /\ hpc' = [hpc EXCEPT ![p][i] = IF IsPrune(i) THEN "wait_prev" ELSE "exec"]
    /\ token' = IF IsPrune(i) THEN [token EXCEPT ![p][i] = "live"] ELSE token
    /\ UNCHANGED <<oblivious_map, db, resp, faults>>
    /\ UNCHANGED coordVars
    /\ UNCHANGED sessVars
    /\ UNCHANGED fnVars

\* Mutant of RoundJoined: the operation returns Ok without the other peers.
RoundJoinedAlone(i) == TRUE

\* The oblivious-map operation is a three-party protocol: it returns Ok at a
\* peer only when all three peers have entered the round and none has left
\* it with an error.
RoundJoined(i) == \A q \in Peers : hpc[q][i] \in {"exec", "store", "done_ok"}

\* Mutant of PeerOpOk: a read leaves a mark in the map.
PeerOpOkReadMarks(p, i) ==
    /\ hpc[p][i] = "exec"
    /\ RoundJoined(i)
    /\ IF IsRead(i)
         THEN /\ resp' = [resp EXCEPT ![i][p] = oblivious_map[p]]
              /\ Finish(p, i, "done_ok")
              /\ oblivious_map' = [oblivious_map EXCEPT ![p] = Append(@, i)]
         ELSE /\ oblivious_map' = [oblivious_map EXCEPT ![p] = Append(@, i)]
              /\ hpc' = [hpc EXCEPT ![p][i] = "store"]
              /\ UNCHANGED <<lock, resp, fan>>
    /\ token' = [token EXCEPT ![p][i] = "cancelled"]
    /\ UNCHANGED <<db, faults>>
    /\ UNCHANGED coordRest
    /\ UNCHANGED sessVars
    /\ UNCHANGED fnVars

\* block_in_place returned Ok.  A read answers from the map and returns; a
\* ban / unban has updated the map and goes on to store_map.
PeerOpOk(p, i) ==
    /\ hpc[p][i] = "exec"
    /\ RoundJoined(i)
    /\ IF IsRead(i)
         THEN /\ resp' = [resp EXCEPT ![i][p] = oblivious_map[p]]
              /\ Finish(p, i, "done_ok")
              /\ UNCHANGED oblivious_map
         ELSE /\ oblivious_map' = [oblivious_map EXCEPT ![p] = Append(@, i)]
              /\ hpc' = [hpc EXCEPT ![p][i] = "store"]
              /\ UNCHANGED <<lock, resp, fan>>
    /\ token' = [token EXCEPT ![p][i] = "cancelled"]
    /\ UNCHANGED <<db, faults>>
    /\ UNCHANGED coordRest
    /\ UNCHANGED sessVars
    /\ UNCHANGED fnVars

\* block_in_place returned Err (a transport error, a failed proof): the `?`
\* returns, the map is as it was.
PeerOpFail(p, i) ==
    /\ hpc[p][i] = "exec"
    /\ FaultAfter(Peers, i)
    /\ Finish(p, i, "done_err")
    /\ UNCHANGED token
    /\ UNCHANGED <<oblivious_map, db, resp>>
    /\ UNCHANGED coordRest
    /\ UNCHANGED sessVars
    /\ UNCHANGED fnVars

\* Mutant of PeerStoreOk: the handler returns its response without the store.
PeerRespondUnstored(p, i) ==
    /\ hpc[p][i] = "store"
    /\ Finish(p, i, "done_ok")
    /\ UNCHANGED token
    /\ UNCHANGED <<oblivious_map, db, resp, faults>>
    /\ UNCHANGED coordRest
    /\ UNCHANGED sessVars
    /\ UNCHANGED fnVars

\* DbPool::store_map returned Ok: the row holds the dump of the map; the
\* handler returns its response.
PeerStoreOk(p, i) ==
    /\ hpc[p][i] = "store"
    /\ db' = [db EXCEPT ![p] = oblivious_map[p]]
    /\ Finish(p, i, "done_ok")
    /\ UNCHANGED token
    /\ UNCHANGED <<oblivious_map, resp, faults>>
    /\ UNCHANGED coordRest
    /\ UNCHANGED sessVars
    /\ UNCHANGED fnVars

\* DbPool::store_map did not complete: it returned Err and the `?` returns
\* the error, or the handler was dropped while the store was pending.
PeerStoreFail(p, i) ==
    /\ hpc[p][i] = "store"
    /\ Fault
    /\ Finish(p, i, "done_err")
    /\ UNCHANGED token
    /\ UNCHANGED <<oblivious_map, db, resp>>
    /\ UNCHANGED coordRest
    /\ UNCHANGED sessVars
    /\ UNCHANGED fnVars

(* --------------- the HTTP requests coordinator -> peer ----------------- *)

\* client.post(url).send() returned Err: peer_request_timeout elapsed or the
\* connection failed.  The peer's server drops a handler that is suspended in
\* an await of the rendezvous or of the lock; a handler inside block_in_place
\* or store_map runs on.
CoordTimeout(p, i) ==
    /\ fan[i][p] = "sent"
    /\ Fault
    /\ fan' = [fan EXCEPT ![i][p] = "err"]
    /\ IF hpc[p][i] \in {"wait_prev", "lock"}
         THEN /\ hpc' = [hpc EXCEPT ![p][i] = "done_err"]
              /\ lock' = Unlocked(p, i)
              /\ token' = [token EXCEPT ![p][i] = "dropped"]
         ELSE UNCHANGED <<hpc, lock, token>>
    /\ UNCHANGED <<oblivious_map, db, resp>>
    /\ UNCHANGED coordRest
    /\ UNCHANGED sessVars
    /\ UNCHANGED fnVars

\* The coordinator on its own: client.post(url).send() for request i to peer
\* p returns, with a response of a success status (st = "ok") or with an
\* error, a timeout or another status (st = "err").
PeerAnswers(p, i, st) ==
    /\ fan[i][p] = "sent"
    /\ fan' = [fan EXCEPT ![i][p] = st]
    /\ UNCHANGED coordRest
    /\ UNCHANGED peerVars
    /\ UNCHANGED sessVars
    /\ UNCHANGED fnVars

(* ============ session registry: ws-mpc-net, tcp-mpc-net ================ *)

SessionIds == 1..MaxSession

Absent == [tag |-> "Absent", ws |-> 0, tx |-> 0]
\* WsSession::Ready(websocket) / TcpSession::Ready(stream)
Ready(s) == [tag |-> "Ready", ws |-> s, tx |-> 0]
\* WsSession::Waiter(tx): tx is the sender of the one-shot channel whose
\* receiver call c awaits.
Waiter(c) == [tag |-> "Waiter", ws |-> 0, tx |-> c]

\* WsSessions::default() / TcpSessions::new: the empty HashMap.
SessInit ==
    /\ sessions = [id \in SessionIds |-> Absent]
    /\ calls = <<>>
    /\ sess_mutex = 0

\* The record of a call: op "get" / "insert", its session id, the stream an
\* insert brings, the state of the call ("pending", "ok", "err"), the stream
\* a get returned, and the error ("conflict", "recv", "elapsed").
Call(op, id, ws, st, got, why) ==
    [op |-> op, id |-> id, ws |-> ws, st |-> st, got |-> got, why |-> why]

\* Mutant of Removed: the entry stays in the table.
NotRemoved(id) == sessions

\* sessions.remove(&session_id): the entry leaves the table.
Removed(id) == [sessions EXCEPT ![id] = Absent]

\* Mutant of GuardAtAwait: the get awaits its receiver with the guard alive.
GuardKeptAtAwait(c) == c

\* `drop(sessions); // drop to release lock` before `rx.await` (ws-mpc-net
\* lib.rs 50, tcp-mpc-net lib.rs 60): call c awaits without the guard.
GuardAtAwait(c) == 0

\* WsSessions::get / TcpSessions::get up to its return or its rx.await.
\* self.sessions.lock().await returns when no call holds the guard; a call
\* that returns drops its guard.
\* The entry is removed before it is looked at.  Ready: the stream is
\* returned.  Waiter: the call bails, and the removed sender is dropped, so
\* the rx.await of the get that owns the receiver returns RecvError.  None: a
\* Waiter is put in the table and the call awaits its receiver.
Get(id) ==
    /\ Len(calls) < MaxCalls
    /\ sess_mutex = 0
    /\ LET e == sessions[id]
           c == Len(calls) + 1
       IN  \/ /\ e.tag = "Ready"
              /\ sessions' = Removed(id)
              /\ calls' = Append(calls, Call("get", id, 0, "ok", e.ws, "none"))
              /\ sess_mutex' = 0
           \/ /\ e.tag = "Waiter"
              /\ sessions' = Removed(id)
              /\ calls' = Append(
                    IF calls[e.tx].st = "pending"
                      THEN [calls EXCEPT ![e.tx].st = "err", ![e.tx].why = "recv"]
                      ELSE calls,
                    Call("get", id, 0, "err", 0, "conflict"))
              /\ sess_mutex' = 0
           \/ /\ e.tag = "Absent"
              /\ sessions' = [sessions EXCEPT ![id] = Waiter(c)]
              /\ calls' = Append(calls, Call("get", id, 0, "pending", 0, "none"))
              /\ sess_mutex' = GuardAtAwait(c)
    /\ UNCHANGED coordVars
    /\ UNCHANGED peerVars
    /\ UNCHANGED fnVars

\* WsSessions::insert / TcpSessions::insert with a fresh stream (the stream
\* is named by the number of the call).  The entry is removed before it is
\* looked at.  Ready: the call bails; the removed stream and the new one are
\* dropped.  Waiter: the stream is sent to the receiver (a send to a dropped
\* receiver fails and is ignored).  None: the stream is stored as Ready.
Insert(id) ==
    /\ Len(calls) < MaxCalls
    /\ sess_mutex = 0
    /\ sess_mutex' = 0
    /\ LET e == sessions[id]
           c == Len(calls) + 1
       IN  \/ /\ e.tag = "Ready"
              /\ sessions' = Removed(id)
              /\ calls' = Append(calls, Call("insert", id, c, "err", 0, "conflict"))
           \/ /\ e.tag = "Waiter"
              /\ sessions' = Removed(id)
              /\ calls' = Append(
                    IF calls[e.tx].st = "pending"
                      THEN [calls EXCEPT ![e.tx].st = "ok", ![e.tx].got = c]
                      ELSE calls,
                    Call("insert", id, c, "ok", 0, "none"))
           \/ /\ e.tag = "Absent"
              /\ sessions' = [sessions EXCEPT ![id] = Ready(c)]
              /\ calls' = Append(calls, Call("insert", id, c, "ok", 0, "none"))
    /\ UNCHANGED coordVars
    /\ UNCHANGED peerVars
    /\ UNCHANGED fnVars

\* init_ws_mpc_nets: tokio::time::timeout(prev_peer_wait_timeout, get) elapsed
\* and the pending get is dropped with its receiver.  The table is not touched.
GetElapsed(c) ==
    /\ c \in 1..Len(calls)
    /\ calls[c].op = "get"
    /\ calls[c].st = "pending"
    /\ calls' = [calls EXCEPT ![c].st = "err", ![c].why = "elapsed"]
    /\ sess_mutex' = IF sess_mutex = c THEN 0 ELSE sess_mutex
    /\ UNCHANGED sessions
    /\ UNCHANGED coordVars
    /\ UNCHANGED peerVars
    /\ UNCHANGED fnVars

(* ================= post_to_peers: rw_queue.rs 283-314 ================== *)

\* What one client.post(url).json(..).send() comes back with: the future is
\* still pending; it returned Err (no answer: timeout, connection error); it
\* returned a response with a non-success status; it returned a success
\* status with a body that does or does not decode as Res.
Pending == [tag |-> "pending", body |-> 0]
NoAnswer == [tag |-> "no_answer", body |-> 0]
StatusErr == [tag |-> "status_err", body |-> 0]
BadBody == [tag |-> "bad_body", body |-> 0]
Body(b) == [tag |-> "ok", body |-> b]
Answers == {NoAnswer, StatusErr, BadBody} \cup {Body(b) : b \in 1..MaxBody}

\* The value of the future of post_to_peers: not returned yet, Ok([res0,
\* res1, res2]), or Err of a stage ("send", "status", "body") at a peer.
NotPosted == [ok |-> FALSE, res |-> <<>>, why |-> "pending", peer |-> 0]
PostOk(r) == [ok |-> TRUE, res |-> r, why |-> "none", peer |-> 0]
PostErr(why, p) == [ok |-> FALSE, res |-> <<>>, why |-> why, peer |-> p]

\* The first peer, in the order 0, 1, 2, whose answer has tag t.
FirstWith(a, t) == CHOOSE p \in Peers : a[p].tag = t /\ \A q \in Peers : a[q].tag = t => p <= q

\* Mutant of PostToPeers: a body that does not decode is passed on.
PostToPeersUndecoded(a) ==
    IF \E p \in Peers : a[p].tag = "no_answer" THEN PostErr("send", FirstWith(a, "no_answer"))
    ELSE IF \E p \in Peers : a[p].tag = "status_err" THEN PostErr("status", FirstWith(a, "status_err"))
    ELSE PostOk(<<a[0].body, a[1].body, a[2].body>>)

\* post_to_peers after the join of the three sends: the `?` on the three
\* send results (293-295), the three status checks (296-307), the join of the
\* three json decodes and their `?` (308-312), Ok of the three bodies (313).
PostToPeers(a) ==
    IF \E p \in Peers : a[p].tag = "no_answer" THEN PostErr("send", FirstWith(a, "no_answer"))
    ELSE IF \E p \in Peers : a[p].tag = "status_err" THEN PostErr("status", FirstWith(a, "status_err"))
    ELSE IF \E p \in Peers : a[p].tag = "bad_body" THEN PostErr("body", FirstWith(a, "bad_body"))
    ELSE PostOk(<<a[0].body, a[1].body, a[2].body>>)

\* No request has been sent to a peer.
NotDelivered == [op |-> "none", id |-> 0, elem |-> 0]

\* Mutant of PostRequests: every peer is sent the first element of the bundle.
PostRequestsFirst(op, id, requests) ==
    [p \in Peers |-> [op |-> op, id |-> id, elem |-> requests[0]]]

\* do_peer_read / ban / unban (222-265): the url of peer p is
\* {peers[p]}/api/v1/{op}/{request_id}; post_to_peers (288-292) posts
\* requests[p] to the p-th url.
PostRequests(op, id, requests) ==
    [p \in Peers |-> [op |-> op, id |-> id, elem |-> requests[p]]]

\* No call of post_to_peers is modelled.
PostIdle ==
    /\ bundle = [op |-> "none", id |-> 0, requests |-> [p \in Peers |-> 0]]
    /\ delivered = [p \in Peers |-> NotDelivered]
    /\ answers = [p \in Peers |-> Pending]
    /\ posted = PostErr("idle", 0)

\* do_peer_read / ban / unban is called with a request id and a bundle.
PostStart ==
    /\ bundle \in [op : {"read", "ban", "unban"}, id : 1..MaxReqs, requests : [Peers -> 1..MaxBody]]
    /\ delivered = [p \in Peers |-> NotDelivered]
    /\ answers = [p \in Peers |-> Pending]
    /\ posted = NotPosted

\* The first poll of tokio::join!: the three requests are sent.
PostSends ==
    /\ posted = NotPosted
    /\ \A p \in Peers : delivered[p] = NotDelivered
    /\ delivered' = PostRequests(bundle.op, bundle.id, bundle.requests)
    /\ UNCHANGED <<bundle, answers, posted>>
    /\ UNCHANGED <<coordVars, peerVars, sessVars, apiVars, clientVars, netVars, dbVars, decVars, pipeVars, rvVars>>

\* One of the three sends of tokio::join! completes.
SendReturns(p, a) ==
    /\ posted = NotPosted
    /\ delivered[p] # NotDelivered
    /\ answers[p] = Pending
    /\ answers' = [answers EXCEPT ![p] = a]
    /\ UNCHANGED <<bundle, delivered, posted>>
    /\ UNCHANGED <<coordVars, peerVars, sessVars, apiVars, clientVars, netVars, dbVars, decVars, pipeVars, rvVars>>

\* tokio::join! returns once all three sends have completed; post_to_peers
\* runs to its return.
PostReturns ==
    /\ posted = NotPosted
    /\ \A p \in Peers : answers[p] # Pending
    /\ posted' = PostToPeers(answers)
    /\ UNCHANGED <<bundle, delivered, answers>>
    /\ UNCHANGED <<coordVars, peerVars, sessVars, apiVars, clientVars, netVars, dbVars, decVars, pipeVars, rvVars>>

(* ============ the coordinator's API: api/v1.rs, lib.rs 25-58 =========== *)

RpIds == 0..MaxRp

\* The actor of a queue waits in rx.recv() (rw_queue.rs 67).
AtRecv == [pc |-> "recv", cur |-> 0]

\* No request to the API is modelled.
ApiIdle ==
    /\ rp_bitservices = {}
    /\ rp_queue = [r \in RpIds |-> <<>>]
    /\ rp_actor = [r \in RpIds |-> AtRecv]
    /\ contacted = {}
    /\ api_log = <<>>

\* Mutant of Known: every rp id is taken as configured.
KnownAny(rp) == TRUE

\* state.rp_bitservices.get(&rp_id) is Some (v1.rs 50-53, 68-71, 86-89).
Known(rp) == rp \in rp_bitservices

\* The handler read / ban / unban up to its first await: NotFound for an
\* rp_id that is not configured, else the request is sent on the channel of
\* that rp's queue (rw_queue.rs 173-219) and the handler waits for the answer.
Handler(k, rp) ==
    /\ Len(api_log) < MaxApi
    /\ IF Known(rp)
       THEN /\ api_log' = Append(api_log, [rp |-> rp, kind |-> k, status |-> "pending"])
            /\ rp_queue' = [rp_queue EXCEPT ![rp] = Append(@, Len(api_log) + 1)]
       ELSE /\ api_log' = Append(api_log, [rp |-> rp, kind |-> k, status |-> "NotFound"])
            /\ UNCHANGED rp_queue
    /\ UNCHANGED <<rp_bitservices, rp_actor, contacted>>
    /\ UNCHANGED <<coordVars, peerVars, sessVars, postVars, clientVars, netVars, dbVars, decVars, pipeVars, rvVars>>

\* Mutant of ActorFree: one actor serves the channels of all rps.
ActorFreeShared(rp) == \A r \in RpIds : rp_actor[r] = AtRecv

\* Each rp has its own RpRwQueue (lib.rs 41-56), with its own channel,
\* JoinSet and spawned actor (rw_queue.rs 58-66): the actor of rp can take
\* the next message when it is itself at rx.recv().
ActorFree(rp) == rp_actor[rp] = AtRecv

\* The read tasks of rp that were spawned and have not answered.
RpReads(rp) ==
    {c \in 1..Len(api_log) : api_log[c].rp = rp /\ api_log[c].status = "spawned"}

\* The actor of rp takes the next message of its channel: a read is spawned
\* as a task and the actor is back at rx.recv(); a write keeps the actor, which
\* drains the read tasks and contacts the peers (rw_queue.rs 67-146).
RpDispatch(rp) ==
    /\ ActorFree(rp)
    /\ rp_queue[rp] # <<>>
    /\ LET c == Head(rp_queue[rp]) IN
         /\ contacted' = contacted \cup {c}
         /\ IF api_log[c].kind = "read"
              THEN /\ api_log' = [api_log EXCEPT ![c].status = "spawned"]
                   /\ UNCHANGED rp_actor
              ELSE /\ api_log' = [api_log EXCEPT ![c].status = "writing"]
                   /\ rp_actor' = [rp_actor EXCEPT ![rp] = [pc |-> "write", cur |-> c]]
    /\ rp_queue' = [rp_queue EXCEPT ![rp] = Tail(@)]
    /\ UNCHANGED rp_bitservices
    /\ UNCHANGED <<coordVars, peerVars, sessVars, postVars, clientVars, netVars, dbVars, decVars, pipeVars, rvVars>>

\* A read task of rp got its fan-out back and answers the handler, which
\* returns Ok(Json(res)) or the error.
RpReadAnswer(c, st) ==
    /\ c \in 1..Len(api_log)
    /\ api_log[c].status = "spawned"
    /\ api_log' = [api_log EXCEPT ![c].status = st]
    /\ UNCHANGED <<rp_bitservices, rp_queue, rp_actor, contacted>>
    /\ UNCHANGED <<coordVars, peerVars, sessVars, postVars, clientVars, netVars, dbVars, decVars, pipeVars, rvVars>>

\* The actor of rp, its read tasks drained, got the write's fan-out back and
\* answers the handler; it then sends the prune (toPrune) or is back at
\* rx.recv() (rw_queue.rs 103-165).
RpWriteAnswer(rp, st, toPrune) ==
    /\ rp_actor[rp].pc = "write"
    /\ RpReads(rp) = {}
    /\ api_log' = [api_log EXCEPT ![rp_actor[rp].cur].status = st]
    /\ rp_actor' = [rp_actor EXCEPT ![rp] = IF toPrune THEN [pc |-> "prune", cur |-> 0] ELSE AtRecv]
    /\ UNCHANGED <<rp_bitservices, rp_queue, contacted>>
    /\ UNCHANGED <<coordVars, peerVars, sessVars, postVars, clientVars, netVars, dbVars, decVars, pipeVars, rvVars>>

\* do_peer_prune of rp's actor returned (rw_queue.rs 154-164).
RpPruneDone(rp) ==
    /\ rp_actor[rp].pc = "prune"
    /\ rp_actor' = [rp_actor EXCEPT ![rp] = AtRecv]
    /\ UNCHANGED <<rp_bitservices, rp_queue, contacted, api_log>>
    /\ UNCHANGED <<coordVars, peerVars, sessVars, postVars, clientVars, netVars, dbVars, decVars, pipeVars, rvVars>>

(* ============== the client library: bitservice-client/lib.rs =========== *)

Field == 0..(FieldP - 1)

\* Mutant of FieldAdd: the sum is not reduced.
FieldAddUnreduced(x, y) == x + y

\* Addition in ark_bn254::Fr.
FieldAdd(x, y) == (x + y) % FieldP

\* The public inputs a write response declares.
PublicInputs ==
    [old_root : 0..MaxInput, new_root : 0..MaxInput,
     commitment_key : {0}, commitment_value : 0..MaxInput]

\* A per-peer response of a read: the replicated share (a, b) of the value
\* and the proof.  verify is what r1cs::verify(vk, proof, declared inputs)
\* returns for it: Ok(true), Ok(false) or Err.
ReadResponses ==
    [a : Field, b : Field, inputs : {[old_root |-> 0, new_root |-> 0, commitment_key |-> 0, commitment_value |-> 0]},
     verify : {"true", "false", "err"}]

\* A per-peer response of a ban / unban: the proof and its public inputs.
WriteResponses == [a : {0}, b : {0}, inputs : PublicInputs, verify : {"true", "false", "err"}]

Returns(st, v) == [st |-> st, value |-> v]

\* impl TryFrom<Fr> for Value (40-52).
TryFromFr(value) ==
    IF value = 0 THEN Returns("ok", "NotBanned")
    ELSE IF value = 1 THEN Returns("ok", "Banned")
    ELSE Returns("err", "none")

\* The three assert!(r1cs::verify(..)?) in the order of the peers (118-132,
\* 193-222): of the first proof that is not Ok(true), an Err is returned by
\* the `?` and an Ok(false) fails the assert!, which panics; the call goes on
\* to `then` when all three are Ok(true).
Verified(res, then) ==
    IF \A p \in Peers : res[p].verify = "true" THEN then
    ELSE LET p == CHOOSE q \in Peers : res[q].verify # "true"
                       /\ \A o \in Peers : res[o].verify # "true" => q <= o
         IN  IF res[p].verify = "err" THEN Returns("err", "none")
             ELSE Returns("panic", "none")

\* No call of the client is modelled.
ClientIdle ==
    /\ client_op = "none"
    /\ server_res = "none"
    /\ peer_res = <<>>
    /\ client_out = Returns("idle", "none")

\* A call has sent its request (99-103, 178-182): the coordinator's answer is
\* an error of the send, a non-success status, a body that does not decode,
\* or three per-peer responses.
ClientStart ==
    /\ client_op \in {"read", "ban", "unban"}
    /\ server_res \in {"no_answer", "status_err", "bad_body", "ok"}
    /\ IF server_res # "ok" THEN peer_res = <<>>
       ELSE IF client_op = "read" THEN peer_res \in [Peers -> ReadResponses]
       ELSE peer_res \in [Peers -> WriteResponses]
    /\ client_out = Returns("pending", "none")

\* Client::read from the answer on (104-134): the value is the a component
\* of the sum of the three shares.
ClientRead ==
    /\ client_op = "read"
    /\ client_out.st = "pending"
    /\ client_out' =
         IF server_res # "ok" THEN Returns("err", "none")
         ELSE Verified(peer_res,
                TryFromFr(FieldAdd(FieldAdd(peer_res[0].a, peer_res[1].a), peer_res[2].a)))
    /\ UNCHANGED <<client_op, server_res, peer_res>>
    /\ UNCHANGED <<coordVars, peerVars, sessVars, postVars, apiVars, netVars, dbVars, decVars, pipeVars, rvVars>>

\* Client::ban (184-224) and Client::unban (274-314) from the answer on.
ClientWrite ==
    /\ client_op \in {"ban", "unban"}
    /\ client_out.st = "pending"
    /\ client_out' =
         IF server_res # "ok" THEN Returns("err", "none")
         ELSE Verified(peer_res, Returns("ok", "none"))
    /\ UNCHANGED <<client_op, server_res, peer_res>>
    /\ UNCHANGED <<coordVars, peerVars, sessVars, postVars, apiVars, netVars, dbVars, decVars, pipeVars, rvVars>>

(* ===== the transport of party 0: ws-mpc-net/lib.rs, tcp-mpc-net/lib.rs ==== *)

\* The keys of the maps send and recv: id.next() and id.prev() of party 0.
Nbrs == {1, 2}

\* WebSocketNetwork::new / TcpNetwork::new: empty channels, the four tasks
\* spawned, the counters AtomicUsize::default().
NetNew ==
    /\ send_ch = [q \in Nbrs |-> <<>>]
    /\ recv_ch = [q \in Nbrs |-> <<>>]
    /\ net_tasks = {"sender", "reader"} \X Nbrs
    /\ arrived = [q \in Nbrs |-> 0]
    /\ sent_bytes = [q \in Nbrs |-> 0]
    /\ recv_bytes = [q \in Nbrs |-> 0]
    /\ net_log = <<>>

Logged(op, q, n, st) == Append(net_log, [op |-> op, peer |-> q, len |-> n, st |-> st])

\* Mutant of FetchAdd: the counter counts calls.
FetchAddOne(c, n) == c + 1

\* AtomicUsize::fetch_add(data.len()).
FetchAdd(c, n) == c + n

\* Network::send(to, data) with data of n bytes (ws 262-267, tcp 215-220):
\* Err for a party that is not a key of the map; else the counter is raised
\* and then blocking_send puts the payload on the channel, which is an Err
\* when the sender task has ended (it waits while the channel is full).
NetSend(to, n) ==
    /\ Len(net_log) < MaxNetCalls
    /\ IF to \notin Nbrs
       THEN /\ net_log' = Logged("send", to, n, "out_of_bounds")
            /\ UNCHANGED <<send_ch, sent_bytes>>
       ELSE /\ sent_bytes' = [sent_bytes EXCEPT ![to] = FetchAdd(@, n)]
            /\ IF <<"sender", to>> \in net_tasks
               THEN /\ Len(send_ch[to]) < NetCap
                    /\ send_ch' = [send_ch EXCEPT ![to] = Append(@, n)]
                    /\ net_log' = Logged("send", to, n, "ok")
               ELSE /\ net_log' = Logged("send", to, n, "err")
                    /\ UNCHANGED send_ch
    /\ UNCHANGED <<recv_ch, net_tasks, arrived, recv_bytes>>
    /\ UNCHANGED <<coordVars, peerVars, sessVars, postVars, apiVars, clientVars, dbVars, decVars, pipeVars, rvVars>>

\* Network::recv(from) (ws 269-278, tcp 222-231): Err for a party that is
\* not a key of the map; blocking_recv takes the next item of the channel, or
\* None when the reader task has ended and the channel is empty; the counter
\* is raised by the length of a payload, not for an Err.
NetRecv(from) ==
    /\ Len(net_log) < MaxNetCalls
    /\ IF from \notin Nbrs
       THEN /\ net_log' = Logged("recv", from, 0, "out_of_bounds")
            /\ UNCHANGED <<recv_ch, recv_bytes>>
       ELSE IF recv_ch[from] # <<>>
       THEN /\ recv_ch' = [recv_ch EXCEPT ![from] = Tail(@)]
            /\ IF Head(recv_ch[from]) >= 0
               THEN /\ recv_bytes' = [recv_bytes EXCEPT ![from] = FetchAdd(@, Head(recv_ch[from]))]
                    /\ net_log' = Logged("recv", from, Head(recv_ch[from]), "ok")
               ELSE /\ net_log' = Logged("recv", from, 0, "err")
                    /\ UNCHANGED recv_bytes
       ELSE /\ <<"reader", from>> \notin net_tasks
            /\ net_log' = Logged("recv", from, 0, "err")
            /\ UNCHANGED <<recv_ch, recv_bytes>>
    /\ UNCHANGED <<send_ch, net_tasks, arrived, sent_bytes>>
    /\ UNCHANGED <<coordVars, peerVars, sessVars, postVars, apiVars, clientVars, dbVars, decVars, pipeVars, rvVars>>

\* Network::get_connection_stats (ws 280-293, tcp 233-246) loads the counters.
NetStats ==
    /\ Len(net_log) < MaxNetCalls
    /\ net_log' = Logged("stats", 0, sent_bytes[1] + sent_bytes[2] + recv_bytes[1] + recv_bytes[2], "ok")
    /\ UNCHANGED <<send_ch, recv_ch, net_tasks, arrived, sent_bytes, recv_bytes>>
    /\ UNCHANGED <<coordVars, peerVars, sessVars, postVars, apiVars, clientVars, dbVars, decVars, pipeVars, rvVars>>

\* The sender task of q (ws 156-166, 200-210; tcp 121-131): it takes the
\* next payload of the channel and writes it to the socket; when the write
\* fails it ends, which drops the receiver of the channel.
SenderTask(q, ok) ==
    /\ <<"sender", q>> \in net_tasks
    /\ send_ch[q] # <<>>
    /\ IF ok
       THEN /\ send_ch' = [send_ch EXCEPT ![q] = Tail(@)]
            /\ UNCHANGED net_tasks
       ELSE /\ send_ch' = [send_ch EXCEPT ![q] = <<>>]
            /\ net_tasks' = net_tasks \ {<<"sender", q>>}
    /\ UNCHANGED <<recv_ch, arrived, sent_bytes, recv_bytes, net_log>>
    /\ UNCHANGED <<coordVars, peerVars, sessVars, postVars, apiVars, clientVars, dbVars, decVars, pipeVars, rvVars>>

\* The reader task of q (ws 168-196, 212-240; tcp 133-157): a binary message
\* of n bytes goes on the channel as Ok(data); another message or an error of
\* the socket goes on it as an Err and the task ends; the end of the stream
\* and the cancellation end the task.
ReaderTask(q, m) ==
    /\ <<"reader", q>> \in net_tasks
    /\ arrived[q] < MaxArrive
    /\ Len(recv_ch[q]) < NetCap
    /\ arrived' = [arrived EXCEPT ![q] = @ + 1]
    /\ recv_ch' = IF m = -2 THEN recv_ch ELSE [recv_ch EXCEPT ![q] = Append(@, m)]
    /\ net_tasks' = IF m >= 0 THEN net_tasks ELSE net_tasks \ {<<"reader", q>>}
    /\ UNCHANGED <<send_ch, sent_bytes, recv_bytes, net_log>>
    /\ UNCHANGED <<coordVars, peerVars, sessVars, postVars, apiVars, clientVars, dbVars, decVars, pipeVars, rvVars>>

(* ==== a peer and its database: ban_service.rs 58-66, repository.rs ==== *)

\* The contents of a map: the set of banned keys.
Maps == SUBSET (1..MaxDbKey)

\* LinearScanObliviousMap::default() / ::new: no key is banned.
DefaultMap == {}

\* LinearScanObliviousMap::dump(&mut data, Compress::No): the bytes of a row.
Dump(m) == [compress |-> "No", entries |-> m]

\* LinearScanObliviousMap::from_dump(data, Compress::No, Validate::No, ..).
FromDump(data) == IF data.compress = "No" THEN data.entries ELSE DefaultMap

\* Mutant of StoreMap: a plain INSERT, without ON CONFLICT .. DO UPDATE.
StoreMapInsertOnly(t, m) == t \cup {[id |-> Cardinality(t), data |-> Dump(m)]}

\* DbPool::store_map (repository.rs 54-71): INSERT INTO map (id, data) VALUES
\* (0, dump) ON CONFLICT(id) DO UPDATE SET data = EXCLUDED.data.
StoreMap(t, m) == {r \in t : r.id # 0} \cup {[id |-> 0, data |-> Dump(m)]}

\* No peer process is modelled.
DbIdle ==
    /\ map_table = {}
    /\ live_map = [up |-> FALSE, map |-> DefaultMap]
    /\ last_stored = [done |-> FALSE, map |-> DefaultMap]
    /\ boots = 0

\* BanService::new (58-66) with the load of repository.rs 32-46: SELECT data
\* FROM map WHERE id = 0; a row is loaded with from_dump; without a row the
\* default map is made and stored.  An error of the database (ok = FALSE)
\* returns Err with `?` and the peer does not come up.
PeerStart(ok) ==
    /\ ~live_map.up
    /\ boots < MaxBoots
    /\ boots' = boots + 1
    /\ IF ~ok THEN UNCHANGED <<map_table, live_map, last_stored>>
       ELSE IF \E r \in map_table : r.id = 0
       THEN /\ live_map' = [up |-> TRUE, map |-> FromDump((CHOOSE r \in map_table : r.id = 0).data)]
            /\ UNCHANGED <<map_table, last_stored>>
       ELSE /\ map_table' = StoreMap(map_table, DefaultMap)
            /\ last_stored' = [done |-> TRUE, map |-> DefaultMap]
            /\ live_map' = [up |-> TRUE, map |-> DefaultMap]
    /\ UNCHANGED <<coordVars, peerVars, sessVars, postVars, apiVars, clientVars, netVars, decVars, pipeVars, rvVars>>

\* A ban (banned = TRUE) or unban of key ky at the running peer
\* (ban_service.rs 141-158): the map is updated in memory, then stored; when
\* store_map fails the request fails and the table keeps its row.
PeerWrite(ky, banned, ok) ==
    /\ live_map.up
    /\ live_map' = [live_map EXCEPT !.map = IF banned THEN @ \cup {ky} ELSE @ \ {ky}]
    /\ IF ok
       THEN /\ map_table' = StoreMap(map_table, live_map'.map)
            /\ last_stored' = [done |-> TRUE, map |-> live_map'.map]
       ELSE UNCHANGED <<map_table, last_stored>>
    /\ UNCHANGED boots
    /\ UNCHANGED <<coordVars, peerVars, sessVars, postVars, apiVars, clientVars, netVars, decVars, pipeVars, rvVars>>

\* The peer process ends; its memory is gone.
PeerStop ==
    /\ live_map.up
    /\ live_map' = [up |-> FALSE, map |-> DefaultMap]
    /\ UNCHANGED <<map_table, last_stored, boots>>
    /\ UNCHANGED <<coordVars, peerVars, sessVars, postVars, apiVars, clientVars, netVars, decVars, pipeVars, rvVars>>

(* ====== a handler of the peer's API up to the map lock: api/v1.rs ====== *)

\* The sealed fields of a request: key and r for read (v1.rs 69-70), key,
\* value, r_key and r_value for ban and unban (121-124, 181-184).
Fields(op) ==
    IF op = "read" THEN <<"key", "r">> ELSE <<"key", "value", "r_key", "r_value">>

\* A payload is sound, or is no base64, or is base64 of something that does
\* not unseal, or unseals to bytes that are no share.
Payloads == {"ok", "base64", "ciphertext", "share bytes"}

\* decode_unseal_deser (v1.rs 381-395): STANDARD.decode, unseal and
\* decode_from_slice in this order; the first that fails gives
\* BadRequest("invalid \"{field}\" base64" / ciphertext / share bytes).
DecodeUnsealDeser(payload, field) ==
    IF payload = "base64"
      THEN [ok |-> FALSE, kind |-> "BadRequest", what |-> "base64", field |-> field]
    ELSE IF payload = "ciphertext"
      THEN [ok |-> FALSE, kind |-> "BadRequest", what |-> "ciphertext", field |-> field]
    ELSE IF payload = "share bytes"
      THEN [ok |-> FALSE, kind |-> "BadRequest", what |-> "share bytes", field |-> field]
    ELSE [ok |-> TRUE, kind |-> "Ok", what |-> "", field |-> ""]

\* No handler of the peer's API is modelled.
DecIdle ==
    /\ dec_req = [op |-> "none", payloads |-> <<>>]
    /\ dec_pc = [at |-> "idle", n |-> 0]
    /\ dec_out = [ok |-> FALSE, kind |-> "none", what |-> "", field |-> ""]
    /\ dec_done = {}

\* The server has parsed the JSON body of a read, ban or unban and calls the
\* handler.
DecStart ==
    /\ \E op \in {"read", "ban", "unban"} :
          \E ps \in [1..Len(Fields(op)) -> Payloads] : dec_req = [op |-> op, payloads |-> ps]
    /\ dec_pc = [at |-> "decode", n |-> 1]
    /\ dec_out = [ok |-> FALSE, kind |-> "none", what |-> "", field |-> ""]
    /\ dec_done = {}

\* Mutant of HandlerDecode: the handler opens its connections first and
\* decodes the fields afterwards.
HandlerDecodeLate ==
    /\ dec_pc.at = "decode"
    /\ LET res == DecodeUnsealDeser(dec_req.payloads[dec_pc.n], Fields(dec_req.op)[dec_pc.n]) IN
         IF res.ok
           THEN /\ dec_pc' = IF dec_pc.n = Len(Fields(dec_req.op)) THEN [at |-> "wait_prev", n |-> 0]
                            ELSE [dec_pc EXCEPT !.n = @ + 1]
                /\ UNCHANGED dec_out
           ELSE /\ dec_pc' = [at |-> "returned", n |-> 0]
                /\ dec_out' = res
    /\ dec_done' = dec_done \cup {"connect"}
    /\ UNCHANGED dec_req
    /\ UNCHANGED <<coordVars, peerVars, sessVars, postVars, apiVars, clientVars, netVars, dbVars, pipeVars, rvVars>>

\* The next `let x = decode_unseal_deser(..., "x")?;` of the handler, in the
\* order of the source: an Err returns from the handler.
HandlerDecode ==
    /\ dec_pc.at = "decode"
    /\ LET res == DecodeUnsealDeser(dec_req.payloads[dec_pc.n], Fields(dec_req.op)[dec_pc.n]) IN
         IF res.ok
           THEN /\ dec_pc' = IF dec_pc.n = Len(Fields(dec_req.op)) THEN [at |-> "connect", n |-> 0]
                            ELSE [dec_pc EXCEPT !.n = @ + 1]
                /\ UNCHANGED dec_out
           ELSE /\ dec_pc' = [at |-> "returned", n |-> 0]
                /\ dec_out' = res
    /\ UNCHANGED <<dec_req, dec_done>>
    /\ UNCHANGED <<coordVars, peerVars, sessVars, postVars, apiVars, clientVars, netVars, dbVars, pipeVars, rvVars>>

\* The handler past its decoding (v1.rs 72-101): init_ws_mpc_nets opens the
\* two connections to the next peer, then gets the two sessions of the
\* previous peer from the registry (a Waiter is put into the table or a Ready
\* taken out of it); the handler then takes the map lock and runs the
\* operation.  Each step but the lock can fail (ok = FALSE), which returns.
HandlerStep(ok) ==
    /\ dec_pc.at \in {"connect", "wait_prev", "lock", "exec"}
    /\ dec_pc.at = "lock" => ok
    /\ dec_done' = dec_done \cup
          (IF dec_pc.at = "connect" THEN {"connect"}
           ELSE IF dec_pc.at = "wait_prev" THEN {"session"}
           ELSE IF dec_pc.at = "lock" THEN {"lock"} ELSE {})
    /\ IF ok /\ dec_pc.at # "exec"
         THEN /\ dec_pc' = [at |-> IF dec_pc.at = "connect" THEN "wait_prev"
                                    ELSE IF dec_pc.at = "wait_prev" THEN "lock" ELSE "exec",
                            n |-> 0]
              /\ UNCHANGED dec_out
         ELSE /\ dec_pc' = [at |-> "returned", n |-> 0]
              /\ dec_out' = [ok |-> ok, kind |-> IF ok THEN "Ok" ELSE "InternalError",
                             what |-> "", field |-> ""]
    /\ UNCHANGED dec_req
    /\ UNCHANGED <<coordVars, peerVars, sessVars, postVars, apiVars, clientVars, netVars, dbVars, pipeVars, rvVars>>

(* == a transport and one neighbour, payload by payload: ws-mpc-net/lib.rs == *)

\* WebSocketNetwork::new / TcpNetwork::new for one neighbour: the send and
\* the recv channel of capacity 32 are empty, the sender and the reader task
\* are spawned, the token is the caller's, not cancelled.
PipeNew ==
    /\ tx_ch = <<>>
    /\ tx_log = <<>>
    /\ tx_wire = <<>>
    /\ rx_sock = 0
    /\ rx_hold = -1
    /\ rx_ch = <<>>
    /\ rx_got = <<>>
    /\ pipe_tasks = {"sender", "reader"}
    /\ pipe_token = FALSE
    /\ pipe_open = TRUE

\* Mutant of BlockingSend: a send on a full channel overwrites the newest
\* queued payload.
BlockingSendOverwrites(ch, n) ==
    IF Len(ch) < NetCap THEN [ch |-> Append(ch, n), st |-> "ok"]
    ELSE [ch |-> [ch EXCEPT ![Len(ch)] = n], st |-> "ok"]

\* sender.blocking_send(data) on a channel of capacity 32 whose receiver is
\* alive: the payload is appended when there is room, else the caller waits.
BlockingSend(ch, n) ==
    IF Len(ch) < NetCap THEN [ch |-> Append(ch, n), st |-> "ok"]
    ELSE [ch |-> ch, st |-> "wait"]

\* Network::send (ws 262-267, tcp 215-220), the n-th of at most max: Err when
\* the sender task has ended (the receiver of the channel is dropped).
PipeSend(max) ==
    /\ pipe_open
    /\ Len(tx_log) < max
    /\ \A n \in 1..Len(tx_log) : tx_log[n] # "wait"
    /\ LET n == Len(tx_log) + 1 IN
         IF "sender" \notin pipe_tasks
           THEN /\ tx_log' = Append(tx_log, "err")
                /\ UNCHANGED tx_ch
           ELSE /\ tx_ch' = BlockingSend(tx_ch, n).ch
                /\ tx_log' = Append(tx_log, BlockingSend(tx_ch, n).st)
    /\ UNCHANGED <<tx_wire, rx_sock, rx_hold, rx_ch, rx_got, pipe_tasks, pipe_token, pipe_open>>
    /\ UNCHANGED <<coordVars, peerVars, sessVars, postVars, apiVars, clientVars, netVars, dbVars, decVars, rvVars>>

\* A send that waits in blocking_send goes on: the channel has room again, or
\* the sender task has ended.
PipeSendWakes ==
    /\ tx_log # <<>>
    /\ tx_log[Len(tx_log)] = "wait"
    /\ IF "sender" \notin pipe_tasks
         THEN /\ tx_log' = [tx_log EXCEPT ![Len(tx_log)] = "err"]
              /\ UNCHANGED tx_ch
         ELSE /\ Len(tx_ch) < NetCap
              /\ tx_ch' = BlockingSend(tx_ch, Len(tx_log)).ch
              /\ tx_log' = [tx_log EXCEPT ![Len(tx_log)] = "ok"]
    /\ UNCHANGED <<tx_wire, rx_sock, rx_hold, rx_ch, rx_got, pipe_tasks, pipe_token, pipe_open>>
    /\ UNCHANGED <<coordVars, peerVars, sessVars, postVars, apiVars, clientVars, netVars, dbVars, decVars, rvVars>>

\* The sender task (ws 156-166, tcp 125-132): it takes the oldest payload of
\* the channel and writes it to the socket; when the write fails the task
\* ends and the channel's receiver, with what is queued, is dropped.  When
\* the channel is empty and the transport dropped, recv() is None and the
\* task ends.
PipeSender(ok) ==
    /\ "sender" \in pipe_tasks
    /\ IF tx_ch # <<>>
         THEN IF ok
                THEN /\ tx_wire' = Append(tx_wire, Head(tx_ch))
                     /\ tx_ch' = Tail(tx_ch)
                     /\ UNCHANGED pipe_tasks
                ELSE /\ tx_ch' = <<>>
                     /\ pipe_tasks' = pipe_tasks \ {"sender"}
                     /\ UNCHANGED tx_wire
         ELSE /\ ~pipe_open
              /\ ok
              /\ pipe_tasks' = pipe_tasks \ {"sender"}
              /\ UNCHANGED <<tx_ch, tx_wire>>
    /\ UNCHANGED <<tx_log, rx_sock, rx_hold, rx_ch, rx_got, pipe_token, pipe_open>>
    /\ UNCHANGED <<coordVars, peerVars, sessVars, postVars, apiVars, clientVars, netVars, dbVars, decVars, rvVars>>

\* The owner of the transport cancels the token (ban_service.rs 109, 155).
PipeCancel ==
    /\ ~pipe_token
    /\ pipe_token' = TRUE
    /\ UNCHANGED <<tx_ch, tx_log, tx_wire, rx_sock, rx_hold, rx_ch, rx_got, pipe_tasks, pipe_open>>
    /\ UNCHANGED <<coordVars, peerVars, sessVars, postVars, apiVars, clientVars, netVars, dbVars, decVars, rvVars>>

\* The transport is dropped, when no call on it is under way: the senders of
\* the send channels and the receivers of the recv channels are gone.
PipeDrop ==
    /\ pipe_open
    /\ \A n \in 1..Len(tx_log) : tx_log[n] # "wait"
    /\ pipe_open' = FALSE
    /\ rx_ch' = <<>>
    /\ UNCHANGED <<tx_ch, tx_log, tx_wire, rx_sock, rx_hold, rx_got, pipe_tasks, pipe_token>>
    /\ UNCHANGED <<coordVars, peerVars, sessVars, postVars, apiVars, clientVars, netVars, dbVars, decVars, rvVars>>

\* Mutant of ReaderPuts: the reader task goes on after an Err item.
ReaderPutsGoesOn(item) ==
    IF ~pipe_open
      THEN /\ pipe_tasks' = pipe_tasks \ {"reader"}
           /\ rx_hold' = -1
           /\ UNCHANGED rx_ch
    ELSE IF Len(rx_ch) < NetCap
      THEN /\ rx_ch' = Append(rx_ch, item)
           /\ rx_hold' = -1
           /\ UNCHANGED pipe_tasks
    ELSE /\ rx_hold' = item
         /\ UNCHANGED <<rx_ch, pipe_tasks>>

\* The reader task puts item on the recv channel with send(item).await: it
\* fails when the receiver is dropped, waits while the channel is full.  The
\* task goes on after Ok(data) was put, and ends after an Err item or a
\* failed send.
ReaderPuts(item) ==
    IF ~pipe_open
      THEN /\ pipe_tasks' = pipe_tasks \ {"reader"}
           /\ rx_hold' = -1
           /\ UNCHANGED rx_ch
    ELSE IF Len(rx_ch) < NetCap
      THEN /\ rx_ch' = Append(rx_ch, item)
           /\ rx_hold' = -1
           /\ pipe_tasks' = IF item <= 0 THEN pipe_tasks \ {"reader"} ELSE pipe_tasks
    ELSE /\ rx_hold' = item
         /\ UNCHANGED <<rx_ch, pipe_tasks>>

\* The reader task at its select! (ws 168-196, tcp 134-157): the next message
\* of the socket is "binary" and carries payload data, which goes on the recv
\* channel as Ok(data); a "text" (non-binary) message or a socket "error",
\* which goes on it as an Err before the task ends; or the "end" of the
\* stream, which ends the task.  When the token is cancelled the branch
\* "cancelled" can be taken, which ends the task.
PipeReader(msg, data) ==
    /\ "reader" \in pipe_tasks
    /\ rx_hold = -1
    /\ IF msg = "cancelled"
         THEN /\ pipe_token
              /\ pipe_tasks' = pipe_tasks \ {"reader"}
              /\ UNCHANGED <<rx_sock, rx_hold, rx_ch>>
         ELSE /\ rx_sock' = rx_sock + 1
              /\ IF msg = "binary" THEN ReaderPuts(data)
                 ELSE IF msg = "end"
                   THEN /\ pipe_tasks' = pipe_tasks \ {"reader"}
                        /\ UNCHANGED <<rx_hold, rx_ch>>
                 ELSE IF msg = "text" THEN ReaderPuts(0)
                 ELSE ReaderPuts(-2)
    /\ UNCHANGED <<tx_ch, tx_log, tx_wire, rx_got, pipe_token, pipe_open>>
    /\ UNCHANGED <<coordVars, peerVars, sessVars, postVars, apiVars, clientVars, netVars, dbVars, decVars, rvVars>>

\* The reader task suspended in send(item).await goes on: the channel has
\* room again or its receiver is dropped.
PipeReaderWakes ==
    /\ "reader" \in pipe_tasks
    /\ rx_hold # -1
    /\ ~pipe_open \/ Len(rx_ch) < NetCap
    /\ ReaderPuts(rx_hold)
    /\ UNCHANGED <<tx_ch, tx_log, tx_wire, rx_sock, rx_got, pipe_token, pipe_open>>
    /\ UNCHANGED <<coordVars, peerVars, sessVars, postVars, apiVars, clientVars, netVars, dbVars, decVars, rvVars>>

\* Mutant of NextItem: recv takes the newest item of the channel.
NewestItem(ch) == [item |-> ch[Len(ch)], rest |-> SubSeq(ch, 1, Len(ch) - 1)]

\* mpsc::Receiver::blocking_recv: the oldest item of the channel.
NextItem(ch) == [item |-> Head(ch), rest |-> Tail(ch)]

\* Network::recv (ws 269-278, tcp 222-231), at most max calls: the next item
\* of the channel, Ok(data) or the Err; with nothing queued it waits, and
\* fails with "receiver sender dropped" once the reader task has ended.
PipeRecv(max) ==
    /\ pipe_open
    /\ Len(rx_got) < max
    /\ IF rx_ch # <<>>
         THEN /\ rx_got' = Append(rx_got, NextItem(rx_ch).item)
              /\ rx_ch' = NextItem(rx_ch).rest
         ELSE /\ "reader" \notin pipe_tasks
              /\ rx_got' = Append(rx_got, -1)
              /\ UNCHANGED rx_ch
    /\ UNCHANGED <<tx_ch, tx_log, tx_wire, rx_sock, rx_hold, pipe_tasks, pipe_token, pipe_open>>
    /\ UNCHANGED <<coordVars, peerVars, sessVars, postVars, apiVars, clientVars, netVars, dbVars, decVars, rvVars>>

(* ==== init_ws_mpc_nets of one request at the three peers, step by step === *)

\* All three peers have received the request: each handler is about to start
\* its two ws_connect calls, and no registry has an entry of the round.
RvNew ==
    /\ rv_pc = [p \in Peers |-> "connect"]
    /\ rv_fwd = [p \in Peers |-> {}]
    /\ rv_fly = [p \in Peers |-> {}]
    /\ rv_reg = [p \in Peers |-> [s \in 0..1 |-> "none"]]
    /\ rv_bwd = [p \in Peers |-> {}]

\* Mutant of RvConnect: the connect returns only when the successor's handler
\* already waits for the session.
RvConnectWhenAwaited(p, s) ==
    /\ rv_pc[p] = "connect"
    /\ s \notin rv_fwd[p]
    /\ rv_reg[(p + 1) % 3][s] = "waiter"
    /\ rv_fwd' = [rv_fwd EXCEPT ![p] = @ \cup {s}]
    /\ rv_fly' = [rv_fly EXCEPT ![(p + 1) % 3] = @ \cup {s}]
    /\ rv_pc' = [rv_pc EXCEPT ![p] = IF rv_fwd'[p] = {0, 1} THEN "get0" ELSE @]
    /\ UNCHANGED <<rv_reg, rv_bwd>>
    /\ UNCHANGED <<coordVars, peerVars, sessVars, postVars, apiVars, clientVars, netVars, dbVars, decVars, pipeVars>>

\* One of the two joined ws_connect calls of p returns Ok (lines 276-281;
\* ws_connect, ws-mpc-net lib.rs 112-129): the successor's server has
\* answered the upgrade, whatever the successor's handler does; its
\* on_upgrade callback is still to run.  When both have returned, p goes on
\* to its gets.
RvConnect(p, s) ==
    /\ rv_pc[p] = "connect"
    /\ s \notin rv_fwd[p]
    /\ rv_fwd' = [rv_fwd EXCEPT ![p] = @ \cup {s}]
    /\ rv_fly' = [rv_fly EXCEPT ![(p + 1) % 3] = @ \cup {s}]
    /\ rv_pc' = [rv_pc EXCEPT ![p] = IF rv_fwd'[p] = {0, 1} THEN "get0" ELSE @]
    /\ UNCHANGED <<rv_reg, rv_bwd>>
    /\ UNCHANGED <<coordVars, peerVars, sessVars, postVars, apiVars, clientVars, netVars, dbVars, decVars, pipeVars>>

\* handle_ws_request at p: the on_upgrade callback runs insert(s, socket)
\* (ws-mpc-net lib.rs 56-71, 104-108).  The entry is removed; a Waiter gets
\* the socket, which resumes p's get; with no entry the socket is kept as
\* Ready; a Ready entry is an error, which is logged.
RvInsert(p, s) ==
    /\ s \in rv_fly[p]
    /\ rv_fly' = [rv_fly EXCEPT ![p] = @ \ {s}]
    /\ IF rv_reg[p][s] = "waiter"
         THEN /\ rv_reg' = [rv_reg EXCEPT ![p][s] = "none"]
              /\ rv_bwd' = [rv_bwd EXCEPT ![p] = @ \cup {s}]
              /\ rv_pc' = [rv_pc EXCEPT ![p] = IF @ = "wait0" THEN "get1"
                                               ELSE IF @ = "wait1" THEN "done" ELSE @]
         ELSE /\ rv_reg' = [rv_reg EXCEPT ![p][s] = IF @ = "none" THEN "ready" ELSE "none"]
              /\ UNCHANGED <<rv_bwd, rv_pc>>
    /\ UNCHANGED rv_fwd
    /\ UNCHANGED <<coordVars, peerVars, sessVars, postVars, apiVars, clientVars, netVars, dbVars, decVars, pipeVars>>

\* p's get(session0), then get(session1) (lines 285-286; ws-mpc-net lib.rs
\* 39-54).  The entry is removed; a Ready socket is returned; with no entry
\* p leaves a Waiter and is suspended; a Waiter entry is an error.
RvGet(p) ==
    /\ rv_pc[p] \in {"get0", "get1"}
    /\ LET s == IF rv_pc[p] = "get0" THEN 0 ELSE 1 IN
         IF rv_reg[p][s] = "ready"
           THEN /\ rv_reg' = [rv_reg EXCEPT ![p][s] = "none"]
                /\ rv_bwd' = [rv_bwd EXCEPT ![p] = @ \cup {s}]
                /\ rv_pc' = [rv_pc EXCEPT ![p] = IF s = 0 THEN "get1" ELSE "done"]
         ELSE IF rv_reg[p][s] = "none"
           THEN /\ rv_reg' = [rv_reg EXCEPT ![p][s] = "waiter"]
                /\ rv_pc' = [rv_pc EXCEPT ![p] = IF s = 0 THEN "wait0" ELSE "wait1"]
                /\ UNCHANGED rv_bwd
         ELSE /\ rv_reg' = [rv_reg EXCEPT ![p][s] = "none"]
              /\ rv_pc' = [rv_pc EXCEPT ![p] = "err"]
              /\ UNCHANGED rv_bwd
    /\ UNCHANGED <<rv_fwd, rv_fly>>
    /\ UNCHANGED <<coordVars, peerVars, sessVars, postVars, apiVars, clientVars, netVars, dbVars, decVars, pipeVars>>

(* ------------- the coordinator and the three peers together ------------ *)

Init ==
    /\ CoordInit
    /\ PeerInit
    /\ SessInit
    /\ PostIdle
    /\ ApiIdle
    /\ ClientIdle
    /\ NetNew
    /\ DbIdle
    /\ DecIdle
    /\ PipeNew
    /\ RvNew

Next ==
    \/ \E k \in {"Read", "Ban", "Unban"}, ky \in Keys : Submit(k, ky)
    \/ ActorRecvRead
    \/ ActorJoinNext
    \/ ActorRecvWrite
    \/ ActorJoinAll
    \/ ActorWriteDone
    \/ ActorPruneDone
    \/ \E i \in Ids : ReadTaskStart(i)
    \/ \E i \in Ids : ReadTaskDone(i)
    \/ \E p \in Peers, i \in Ids : PeerRecv(p, i)
    \/ \E p \in Peers, i \in Ids : PeerConnectFail(p, i)
    \/ \E p \in Peers, i \in Ids : PeerGetPrev(p, i)
    \/ \E p \in Peers, i \in Ids : PeerPrevTimeout(p, i)
    \/ \E p \in Peers, i \in Ids : PeerAcquire(p, i)
    \/ \E p \in Peers, i \in Ids : PeerOpOk(p, i)
    \/ \E p \in Peers, i \in Ids : PeerOpFail(p, i)
    \/ \E p \in Peers, i \in Ids : PeerStoreOk(p, i)
    \/ \E p \in Peers, i \in Ids : PeerStoreFail(p, i)
    \/ \E p \in Peers, i \in Ids : CoordTimeout(p, i)

Spec == Init /\ [][Next]_vars

(* ----- a client that awaits each response before its next request ------ *)

\* Every request of the client has been answered.
AllAnswered == \A i \in Ids : kind[i] \in {"Read", "Ban", "Unban"} => result[i] # "none"

\* The sequential client of the end-to-end test: read, ban, read, unban, read, each
\* awaited.
SubmitNext(k, ky) ==
    /\ AllAnswered
    /\ Submit(k, ky)

SeqNext ==
    \/ \E k \in {"Read", "Ban", "Unban"}, ky \in Keys : SubmitNext(k, ky)
    \/ ActorRecvRead
    \/ ActorJoinNext
    \/ ActorRecvWrite
    \/ ActorJoinAll
    \/ ActorWriteDone
    \/ ActorPruneDone
    \/ \E i \in Ids : ReadTaskStart(i)
    \/ \E i \in Ids : ReadTaskDone(i)
    \/ \E p \in Peers, i \in Ids : PeerRecv(p, i)
    \/ \E p \in Peers, i \in Ids : PeerConnectFail(p, i)
    \/ \E p \in Peers, i \in Ids : PeerGetPrev(p, i)
    \/ \E p \in Peers, i \in Ids : PeerPrevTimeout(p, i)
    \/ \E p \in Peers, i \in Ids : PeerAcquire(p, i)
    \/ \E p \in Peers, i \in Ids : PeerOpOk(p, i)
    \/ \E p \in Peers, i \in Ids : PeerOpFail(p, i)
    \/ \E p \in Peers, i \in Ids : PeerStoreOk(p, i)
    \/ \E p \in Peers, i \in Ids : PeerStoreFail(p, i)
    \/ \E p \in Peers, i \in Ids : CoordTimeout(p, i)

SeqSpec == Init /\ [][SeqNext]_vars

(* ------------------------ the registry on its own ---------------------- *)

SessNext ==
    \/ \E id \in SessionIds : Get(id)
    \/ \E id \in SessionIds : Insert(id)
    \/ \E c \in 1..MaxCalls : GetElapsed(c)

SessSpec == Init /\ [][SessNext]_vars

(* ---------------------- one call of post_to_peers ---------------------- *)

PostInit ==
    /\ CoordInit
    /\ prune_write_interval = 0
    /\ max_num_read_tasks = 1
    /\ PeerInit
    /\ SessInit
    /\ PostStart
    /\ ApiIdle
    /\ ClientIdle
    /\ NetNew
    /\ DbIdle
    /\ DecIdle
    /\ PipeNew
    /\ RvNew

PostNext ==
    \/ PostSends
    \/ \E p \in Peers, a \in Answers : SendReturns(p, a)
    \/ PostReturns

PostSpec == PostInit /\ [][PostNext]_vars

(* ------------------------ the coordinator's API ------------------------ *)

ApiInit ==
    /\ CoordInit
    /\ prune_write_interval = 0
    /\ max_num_read_tasks = 1
    /\ PeerInit
    /\ SessInit
    /\ PostIdle
    /\ rp_bitservices \in SUBSET RpIds
    /\ rp_queue = [r \in RpIds |-> <<>>]
    /\ rp_actor = [r \in RpIds |-> AtRecv]
    /\ contacted = {}
    /\ api_log = <<>>
    /\ ClientIdle
    /\ NetNew
    /\ DbIdle
    /\ DecIdle
    /\ PipeNew
    /\ RvNew

ApiNext ==
    \/ \E k \in {"read", "ban", "unban"}, rp \in RpIds : Handler(k, rp)
    \/ \E rp \in RpIds : RpDispatch(rp)
    \/ \E c \in 1..MaxApi, st \in {"Ok", "Error"} : RpReadAnswer(c, st)
    \/ \E rp \in RpIds, st \in {"Ok", "Error"}, toPrune \in BOOLEAN : RpWriteAnswer(rp, st, toPrune)
    \/ \E rp \in RpIds : RpPruneDone(rp)

ApiSpec == ApiInit /\ [][ApiNext]_vars

(* --------------------- one call of the client library ------------------ *)

ClientInit ==
    /\ CoordInit
    /\ prune_write_interval = 0
    /\ max_num_read_tasks = 1
    /\ PeerInit
    /\ SessInit
    /\ PostIdle
    /\ ApiIdle
    /\ ClientStart
    /\ NetNew
    /\ DbIdle
    /\ DecIdle
    /\ PipeNew
    /\ RvNew

ClientNext ==
    \/ ClientRead
    \/ ClientWrite

ClientSpec == ClientInit /\ [][ClientNext]_vars

(* ----------------------- the transport of one party -------------------- *)

NetNext ==
    \/ \E to \in Peers, n \in 0..MaxLen : NetSend(to, n)
    \/ \E from \in Peers : NetRecv(from)
    \/ NetStats
    \/ \E q \in Nbrs, ok \in BOOLEAN : SenderTask(q, ok)
    \/ \E q \in Nbrs, m \in -2..MaxLen : ReaderTask(q, m)

NetInit ==
    /\ Init
    /\ prune_write_interval = 0
    /\ max_num_read_tasks = 1

NetSpec == NetInit /\ [][NetNext]_vars

(* --------- the coordinator on its own, any max_num_read_tasks ---------- *)

QueueInit ==
    /\ max_num_read_tasks \in 0..MaxReadTasks
    /\ CoordNew
    /\ PeerInit
    /\ SessInit
    /\ PostIdle
    /\ ApiIdle
    /\ ClientIdle
    /\ NetNew
    /\ DbIdle
    /\ DecIdle
    /\ PipeNew
    /\ RvNew

QueueNext ==
    \/ \E k \in {"Read", "Ban", "Unban"}, ky \in Keys : Submit(k, ky)
    \/ ActorRecvRead
    \/ ActorJoinNext
    \/ ActorRecvWrite
    \/ ActorJoinAll
    \/ ActorWriteDone
    \/ ActorPruneDone
    \/ \E i \in Ids : ReadTaskStart(i)
    \/ \E i \in Ids : ReadTaskDone(i)
    \/ \E p \in Peers, i \in Ids, st \in {"ok", "err"} : PeerAnswers(p, i, st)

QueueSpec == QueueInit /\ [][QueueNext]_vars

\* The steps of the actor, of the read tasks and of the peers' answers: all
\* of QueueNext but the clients' sends.
QueueRuns ==
    \/ ActorRecvRead
    \/ ActorJoinNext
    \/ ActorRecvWrite
    \/ ActorJoinAll
    \/ ActorWriteDone
    \/ ActorPruneDone
    \/ \E i \in Ids : ReadTaskStart(i)
    \/ \E i \in Ids : ReadTaskDone(i)
    \/ \E p \in Peers, i \in Ids, st \in {"ok", "err"} : PeerAnswers(p, i, st)

\* The prune follows every write.
QueueLiveInit ==
    /\ QueueInit
    /\ prune_write_interval = 1

QueueLiveNext == QueueNext

\* The runtime polls the spawned actor and the spawned read tasks (66, 86),
\* and every request to a peer returns or runs into the client's timeout
\* (60-62): a step of QueueRuns that stays possible is taken.
QueueLiveSpec == QueueLiveInit /\ [][QueueLiveNext]_vars /\ WF_vars(QueueRuns)

(* -------------------- a peer and its database over restarts ------------ *)

DbInit ==
    /\ Init
    /\ prune_write_interval = 0
    /\ max_num_read_tasks = 1

DbNext ==
    \/ \E ok \in BOOLEAN : PeerStart(ok)
    \/ \E ky \in 1..MaxDbKey, banned \in BOOLEAN, ok \in BOOLEAN : PeerWrite(ky, banned, ok)
    \/ PeerStop

DbSpec == DbInit /\ [][DbNext]_vars

(* ------------------ one handler of the peer's API ---------------------- *)

DecodeInit ==
    /\ CoordInit
    /\ prune_write_interval = 0
    /\ max_num_read_tasks = 1
    /\ PeerInit
    /\ SessInit
    /\ PostIdle
    /\ ApiIdle
    /\ ClientIdle
    /\ NetNew
    /\ DbIdle
    /\ DecStart
    /\ PipeNew
    /\ RvNew

DecodeNext ==
    \/ HandlerDecode
    \/ \E ok \in BOOLEAN : HandlerStep(ok)

DecodeSpec == DecodeInit /\ [][DecodeNext]_vars

(* ------ a transport and one neighbour: each direction up to its limit --- *)

PipeInit ==
    /\ Init
    /\ prune_write_interval = 0
    /\ max_num_read_tasks = 1

\* The runs in which one direction of the neighbour is used: MaxPipe sends
\* with nothing arriving, or MaxPipe arriving messages with nothing sent.
PipeNext ==
    \/ rx_sock = 0 /\ rx_got = <<>> /\ ~pipe_token /\ PipeSend(MaxPipe)
    \/ PipeSendWakes
    \/ \E ok \in BOOLEAN : PipeSender(ok)
    \/ \E msg \in {"binary", "text", "error", "end"} :
          tx_log = <<>> /\ rx_sock < MaxPipe /\ PipeReader(msg, rx_sock + 1)
    \/ PipeReader("cancelled", 0)
    \/ PipeReaderWakes
    \/ tx_log = <<>> /\ PipeRecv(MaxPipe + 2)
    \/ tx_log = <<>> /\ PipeCancel
    \/ PipeDrop

\* The tasks are spawned on the runtime, which runs a task that can go on: a
\* sender with a payload to write or a closed channel, a reader whose token
\* is cancelled or whose channel has room again.  Arriving messages and the
\* calls of the transport's owner are not forced.
PipeSpec ==
    PipeInit /\ [][PipeNext]_vars
        /\ WF_vars(PipeSender(TRUE))
        /\ WF_vars(PipeReader("cancelled", 0))
        /\ WF_vars(PipeReaderWakes)

(* ---- a transport's sender towards a neighbour's reader, end to end ----- *)

\* What peer A sends is what the reader of peer B finds on its socket, in the
\* order it was written; the socket can fail at either end.
WireNext ==
    \/ PipeSend(MaxWire)
    \/ \E ok \in BOOLEAN : PipeSender(ok)
    \/ rx_sock < Len(tx_wire) /\ PipeReader("binary", tx_wire[rx_sock + 1])
    \/ \E msg \in {"error", "end"} : rx_sock < MaxWire /\ PipeReader(msg, 0)
    \/ PipeRecv(MaxWire + 1)

WireSpec == PipeInit /\ [][WireNext]_vars

(* ------ init_ws_mpc_nets at the three peers, in whatever order --------- *)

RvNext ==
    \/ \E p \in Peers, s \in 0..1 : RvConnect(p, s)
    \/ \E p \in Peers, s \in 0..1 : RvInsert(p, s)
    \/ \E p \in Peers : RvGet(p)

RvSpec == PipeInit /\ [][RvNext]_vars

(* ============================== properties ============================= *)

ClientReq(i) == kind[i] \in {"Read", "Ban", "Unban"}
Range(m) == {m[n] : n \in 1..Len(m)}

\* Request i has been sent to a peer.
Dispatched(i) == \E p \in Peers : fan[i][p] # "none"

\* The three requests of i have all returned to the coordinator.
Returned(i) == \A p \in Peers : fan[i][p] \in {"ok", "err"}

\* C1: request ids are minted in the order of the channel.  The actor
\* dispatches in that order: whenever a request b has been sent to a peer,
\* every request a enqueued before it, where a or b is a write, has had its
\* three peer requests returned.  So a read after a write is not sent before
\* the write's fan-out completed, and a write is not sent before every earlier
\* read and write completed.
C1_ChannelOrder ==
    \A a \in Ids : \A b \in Ids :
        (a < b /\ ClientReq(a) /\ ClientReq(b) /\ (IsWrite(a) \/ IsWrite(b)) /\ Dispatched(b))
            => Returned(a)

\* A read, then a write, then a read, the last of them dispatched.
C1_Witness ==
    \E a \in Ids : \E b \in Ids : \E c \in Ids :
        a < b /\ b < c /\ IsRead(a) /\ IsWrite(b) /\ IsRead(c) /\ Dispatched(c)

\* The step of the actor that ends join_all and sends the write.
DrainStep == apc = "join_all" /\ apc' = "write"

\* Every task of the taken set has finished, with whatever result.
Drained == \A t \in reads : rstat[t] = "done"

\* C2: the step that sends a dequeued ban / unban to the peers is taken only
\* when every read task of the taken in-flight set has finished, and it can be
\* taken as soon as they all have, whether they succeeded or failed; the
\* result the write reports is made of the answers to its own three requests
\* only.
C2_DrainThenWrite ==
    /\ [][DrainStep => (Drained /\ ~Dispatched(cur) /\ Dispatched(cur)')]_vars
    /\ []((apc = "join_all" /\ Drained) => ENABLED ActorJoinAll)
    /\ [][\A w \in Ids :
            (IsWrite(w) /\ result[w] = "none" /\ result'[w] # "none")
                => (result'[w] = "ok" <=> \A p \in Peers : fan[w][p] = "ok")]_vars

\* A read failed, and the write enqueued right after it succeeded.
C2_Witness ==
    \E r \in Ids : \E w \in Ids :
        w = r + 1 /\ IsRead(r) /\ IsWrite(w) /\ result[r] = "err" /\ result[w] = "ok"

\* The handler of i at p is between the return of its lock acquisition and
\* its return: it operates on the map (read, ban, unban) or dumps it (prune).
Executing(p, i) ==
    IF IsPrune(i) THEN hpc[p][i] \in {"wait_prev", "store"}
    ELSE hpc[p][i] \in {"exec", "store"}

\* C3: at a peer, two handlers operate on the map at the same time only when
\* both are reads: at most one ban / unban / prune at a time, and no read
\* together with one.
C3_WriteExclusive ==
    \A p \in Peers : \A i \in Ids : \A j \in Ids :
        (i # j /\ Executing(p, i) /\ Executing(p, j)) => (IsRead(i) /\ IsRead(j))

\* Two reads operate on the map of one peer at the same time.
C3_Witness ==
    \E p \in Peers : \E i \in Ids : \E j \in Ids :
        i # j /\ IsRead(i) /\ IsRead(j) /\ Executing(p, i) /\ Executing(p, j)

\* The last write of key[r] enqueued before r that the client was told has
\* succeeded (0: none).
LastAccepted(r) ==
    LET ws == {w \in 1..(r - 1) : IsWrite(w) /\ key[w] = key[r] /\ result[w] = "ok"}
    IN  IF ws = {} THEN 0 ELSE CHOOSE w \in ws : \A v \in ws : v <= w

\* C4: with a client that awaits every response, a successful read of k
\* returns what the last successful write of k before it has written: Banned
\* after a ban, NotBanned after an unban.  (The read is counted as returning
\* the other value only when the answers of all three peers were made of maps
\* that hold the other value.)
C4_ReadsSeeLastAcceptedWrite ==
    \A r \in Ids :
        (IsRead(r) /\ result[r] = "ok" /\ LastAccepted(r) # 0)
            => \E p \in Peers :
                 Lookup(resp[r][p], key[r]) = (kind[LastAccepted(r)] = "Ban")

\* C5: a successful read and an accepted write are ordered the same way at
\* all three peers, and that way is the order of the channel: the read was
\* answered from maps that hold the write when the write was enqueued before
\* it, and from maps that do not hold it when it was enqueued after it.
C5_SerialOrder ==
    \A r \in Ids : \A w \in Ids :
        (IsRead(r) /\ result[r] = "ok" /\ IsWrite(w) /\ result[w] = "ok")
            => \A p \in Peers : (w \in Range(resp[r][p])) <=> (w < r)

\* A successful read between two accepted writes.
C5_Witness ==
    \E r \in Ids : \E v \in Ids : \E w \in Ids :
        /\ v < r /\ r < w
        /\ IsRead(r) /\ IsWrite(v) /\ IsWrite(w)
        /\ result[r] = "ok" /\ result[v] = "ok" /\ result[w] = "ok"

\* C6: the step in which a peer's ban / unban handler returns Ok leaves the
\* persisted snapshot equal to the in-memory map, and both hold the write.
C6_StoredBeforeResponse ==
    [][\A p \in Peers : \A i \in Ids :
        (IsWrite(i) /\ hpc[p][i] # "done_ok" /\ hpc'[p][i] = "done_ok")
            => (db'[p] = oblivious_map'[p] /\ i \in Range(db'[p]))]_vars

\* A ban / unban handler has returned Ok at a peer whose map held an earlier
\* write.
C6_Witness ==
    \E p \in Peers : \E i \in Ids :
        IsWrite(i) /\ hpc[p][i] = "done_ok" /\ Len(db[p]) > 1

\* C7: a ban / unban reported as failed has changed no peer's map, neither in
\* memory nor in the database.
C7_FailedWriteNoEffect ==
    \A w \in Ids :
        (IsWrite(w) /\ result[w] = "err")
            => \A p \in Peers :
                 w \notin Range(oblivious_map[p]) /\ w \notin Range(db[p])

\* C8: while a peer has not received write w, the coordinator has not
\* reported w as succeeded, so what it reports is an error, and no peer has
\* persisted a snapshot that holds w.
C8_MissingPeerFailsWrite ==
    \A w \in Ids : \A q \in Peers :
        (IsWrite(w) /\ Dispatched(w) /\ hpc[q][w] = "idle")
            => /\ result[w] # "ok"
               /\ \A p \in Peers : w \notin Range(db[p])

\* A peer never received the write, the other two took part and returned
\* errors, and the coordinator reported the error.
C8_Witness ==
    \E w \in Ids : \E q \in Peers :
        /\ IsWrite(w) /\ hpc[q][w] = "idle" /\ fan[w][q] = "err"
        /\ \A p \in Peers \ {q} : hpc[p][w] = "done_err"
        /\ result[w] = "err"

\* The calls of `op` for session id that returned Ok.
Succeeded(op, id) ==
    {c \in 1..Len(calls) : calls[c].op = op /\ calls[c].id = id /\ calls[c].st = "ok"}

\* C9: for every session id, at most one get and at most one insert of the
\* calls made on the registry have succeeded.
C9_OneGetOneInsert ==
    \A id \in SessionIds :
        /\ Cardinality(Succeeded("get", id)) <= 1
        /\ Cardinality(Succeeded("insert", id)) <= 1

\* The last call made is a get / insert for id that found the entry `tag`.
Duplicate(op, id, tag) ==
    /\ Len(calls') = Len(calls) + 1
    /\ calls'[Len(calls')].op = op
    /\ calls'[Len(calls')].id = id
    /\ sessions[id].tag = tag

\* C10: a get that finds a Waiter and an insert that finds a Ready fail, and
\* leave the table, and with it the pending first get, as they were.
C10_DuplicateKeepsEntry ==
    [][\A id \in SessionIds :
        (Duplicate("get", id, "Waiter") \/ Duplicate("insert", id, "Ready"))
            => /\ calls'[Len(calls')].st = "err"
               /\ sessions' = sessions
               /\ \A c \in 1..Len(calls) : calls'[c] = calls[c]]_vars

\* The calls of `op` made for session id.
CallsOf(op, id) ==
    {c \in 1..Len(calls) : calls[c].op = op /\ calls[c].id = id}

\* Session id has received exactly one get, which its caller has not given
\* up, and exactly one insert.
MetOnce(id) ==
    /\ Cardinality(CallsOf("get", id)) = 1
    /\ Cardinality(CallsOf("insert", id)) = 1
    /\ \A g \in CallsOf("get", id) : calls[g].why # "elapsed"

PrunesIssued == {i \in Ids : IsPrune(i) /\ Dispatched(i)}

\* The bans and unbans the coordinator has reported as succeeded.
WritesSucceeded == {w \in Ids : IsWrite(w) /\ result[w] = "ok"}

\* C12: with a prune_write_interval of n > 0, the coordinator has issued one
\* prune, to each of the three peers, for every n writes that succeeded, and
\* no other prune: the number of prunes issued is the number of successful
\* writes divided by n.
C12_PruneEveryInterval ==
    prune_write_interval > 0 =>
        /\ Cardinality(PrunesIssued) = Cardinality(WritesSucceeded) \div prune_write_interval
        /\ \A i \in PrunesIssued : \A p \in Peers : fan[i][p] # "none"

\* C13: post_to_peers returns Ok exactly when all three peers answered with a
\* success status and a body that decodes, and then it returns the three
\* bodies in the order of the peers; when a peer did not answer, answered
\* with another status or with a body that does not decode, it returns Err
\* and none of the per-peer responses.
C13_FanOutAllOrNothing ==
    posted.why \notin {"pending", "idle"} =>
        /\ posted.ok <=> \A p \in Peers : answers[p].tag = "ok"
        /\ posted.ok => posted.res = <<answers[0].body, answers[1].body, answers[2].body>>
        /\ ~posted.ok => posted.res = <<>>

\* Two peers answered with a decodable body, the third with one that does not
\* decode, and post_to_peers returned Err.
C13_Witness ==
    /\ answers[0].tag = "ok" /\ answers[1].tag = "bad_body" /\ answers[2].tag = "ok"
    /\ posted = PostErr("body", 1)

\* C14: a read, ban or unban for an rp_id that is not configured is answered
\* with NotFound, it is in the channel of no queue, and the peers were not
\* contacted for it.
C14_UnknownRpNotFound ==
    \A c \in 1..Len(api_log) :
        api_log[c].rp \notin rp_bitservices =>
            /\ api_log[c].status = "NotFound"
            /\ c \notin contacted
            /\ \A r \in RpIds : \A j \in 1..Len(rp_queue[r]) : rp_queue[r][j] # c

\* A request for an unknown rp_id was answered with NotFound while a request
\* for a configured one went through its queue to the peers.
C14_Witness ==
    /\ Len(api_log) = 2
    /\ api_log[1].rp \in rp_bitservices /\ api_log[1].status = "Ok" /\ 1 \in contacted
    /\ api_log[2].rp \notin rp_bitservices /\ api_log[2].status = "NotFound"

\* No ban of the key of request r was enqueued before r.
NeverBanned(r) == \A w \in 1..(r - 1) : ~(kind[w] = "Ban" /\ key[w] = key[r])

ShareSum == (peer_res[0].a + peer_res[1].a + peer_res[2].a) % FieldP
AllVerify == \A p \in Peers : peer_res[p].verify = "true"
ReadDone == client_op = "read" /\ server_res = "ok" /\ client_out.st # "pending"

\* C16: a read whose three proofs verify returns NotBanned exactly when the
\* sum of the three returned shares in the field is 0, Banned exactly when it
\* is 1, and an error for every other sum.
C16_ReadDecodesSum ==
    (ReadDone /\ AllVerify) =>
        /\ client_out = Returns("ok", "NotBanned") <=> ShareSum = 0
        /\ client_out = Returns("ok", "Banned") <=> ShareSum = 1
        /\ client_out = Returns("err", "none") <=> ShareSum \notin {0, 1}

\* A read returned NotBanned for three shares that are each 1 (their sum
\* wraps around to 0 in the field).
C16_Witness ==
    /\ ReadDone /\ AllVerify
    /\ \A p \in Peers : peer_res[p].a = 1
    /\ client_out = Returns("ok", "NotBanned")

\* C17: the client accepts a ban or unban only when the three per-peer
\* responses carry the same old_root, new_root, commitment_key and
\* commitment_value.
C17_SamePublicInputs ==
    (client_op \in {"ban", "unban"} /\ client_out.st = "ok") =>
        \A p, q \in Peers : peer_res[p].inputs = peer_res[q].inputs

\* C18: a read, ban or unban returns a successful result only if all three
\* proofs verified against their declared public inputs, and when one of them
\* does not verify the call returns an error (and no value) to its caller.
C18_UnverifiedReturnsError ==
    (server_res = "ok" /\ client_out.st # "pending") =>
        /\ client_out.st = "ok" => AllVerify
        /\ ~AllVerify => client_out = Returns("err", "none")

\* The bytes of the calls of net_log with operation op on peer q that were
\* counted: every send that found its peer, every recv that returned a payload.
RECURSIVE Bytes(_, _, _)
Bytes(log, op, q) ==
    IF log = <<>> THEN 0
    ELSE Bytes(Tail(log), op, q)
           + (IF Head(log).op = op /\ Head(log).peer = q /\ Head(log).st # "out_of_bounds"
                 /\ (op = "recv" => Head(log).st = "ok")
              THEN Head(log).len ELSE 0)

\* C19: each send(peer, data) raises the peer's sent_bytes by len(data) and
\* each recv(peer) that returns a payload raises the peer's recv_bytes by its
\* length, so each counter is the sum of the lengths of those calls; no step
\* of the transport or of its tasks lowers a counter or changes it otherwise.
C19_ByteCounters ==
    /\ [](\A q \in Nbrs : /\ sent_bytes[q] = Bytes(net_log, "send", q)
                          /\ recv_bytes[q] = Bytes(net_log, "recv", q))
    /\ [][\A q \in Nbrs :
            /\ sent_bytes'[q] >= sent_bytes[q]
            /\ recv_bytes'[q] >= recv_bytes[q]
            /\ net_log' = net_log => (sent_bytes'[q] = sent_bytes[q] /\ recv_bytes'[q] = recv_bytes[q])]_vars

\* A send of 2 bytes failed because the sender task had ended and was counted;
\* a recv returned a payload of 2 bytes and was counted.
C19_Witness ==
    /\ \E c \in 1..Len(net_log) :
          net_log[c].op = "send" /\ net_log[c].st = "err" /\ net_log[c].len = 2
            /\ sent_bytes[net_log[c].peer] >= 3
    /\ \E c \in 1..Len(net_log) :
          net_log[c].op = "recv" /\ net_log[c].st = "ok" /\ net_log[c].len = 2
            /\ recv_bytes[net_log[c].peer] = 2

\* C20: no step of a read request at a peer, whether the read goes on, is
\* answered or fails, changes that peer's map in memory or in the database.
C20_ReadChangesNothing ==
    [][\A p \in Peers : \A i \in Ids :
          (IsRead(i) /\ hpc'[p][i] # hpc[p][i])
              => (oblivious_map'[p] = oblivious_map[p] /\ db'[p] = db[p])]_vars

\* At peers that hold an earlier write, one read was answered and one failed.
C20_Witness ==
    /\ \E p \in Peers : \E i \in Ids :
          IsRead(i) /\ hpc[p][i] = "done_ok" /\ oblivious_map[p] # <<>> /\ db[p] # <<>>
    /\ \E p \in Peers : \E i \in Ids :
          IsRead(i) /\ hpc[p][i] = "done_err" /\ oblivious_map[p] # <<>> /\ db[p] # <<>>

C22_PruneBeforeNext ==
    [][\A b \in Ids :
          (ClientReq(b) /\ (\A p \in Peers : fan[b][p] = "none") /\ (\E p \in Peers : fan'[b][p] # "none"))
              => \A i \in Ids : (IsPrune(i) /\ Dispatched(i)) => Returned(i)]_vars

\* A read enqueued behind a write that triggered a prune was sent to the
\* peers, after the prune had returned.
C22_Witness ==
    /\ prune_write_interval = 1
    /\ IsWrite(1) /\ IsRead(2) /\ IsPrune(3)
    /\ Returned(3)
    /\ Dispatched(2)

\* C23: a prune has no one-shot channel and its outcome reaches no client: a
\* write's response is the result of the write's own fan-out; when the prune
\* fan-out returns, with Ok or Err, the counter is reset to zero, no result
\* changes, and the actor is back at the channel with the queue as it was.
C23_PruneFailureSwallowed ==
    /\ [](\A i \in Ids : /\ (IsPrune(i) => result[i] = "none")
                          /\ ((IsWrite(i) /\ result[i] # "none") => result[i] = FanOutResult(i)))
    /\ [][(apc = "prune" /\ apc' # "prune") =>
            /\ prune_write_counter' = 0
            /\ result' = result
            /\ apc' = "recv" /\ cur' = 0 /\ queue' = queue]_vars

\* The prune triggered by a successful write failed, and the read enqueued
\* behind the write was answered successfully afterwards.
C23_Witness ==
    /\ IsWrite(1) /\ result[1] = "ok"
    /\ IsPrune(3) /\ Returned(3) /\ FanOutResult(3) = "err"
    /\ IsRead(2) /\ result[2] = "ok"
    /\ prune_write_counter = 0

\* The oldest task of the in-flight set.
Oldest == CHOOSE t \in read_tasks : \A u \in read_tasks : t <= u

C25_ReadTasksBounded == Cardinality(read_tasks) <= max_num_read_tasks

\* C26: in a fan-out peer p is sent the p-th element of the client's bundle,
\* under the operation and the request id of the call, so all three peers
\* get the same request id; element p of the joined response is the answer
\* of peer p.
C26_BundleByPeerIndex ==
    /\ \A p \in Peers :
          delivered[p] # NotDelivered =>
              /\ delivered[p].elem = bundle.requests[p]
              /\ delivered[p].op = bundle.op
              /\ delivered[p].id = bundle.id
              /\ \A q \in Peers : delivered[q] # NotDelivered /\ delivered[q].id = delivered[p].id
    /\ posted.ok => \A p \in Peers : posted.res[p + 1] = answers[p].body

\* A fan-out of a bundle whose elements differ returned the peers' answers,
\* which differ too.
C26_Witness ==
    /\ bundle.requests[0] # bundle.requests[1]
    /\ bundle.requests[1] # bundle.requests[2]
    /\ \A p \in Peers : delivered[p] # NotDelivered
    /\ posted.ok
    /\ posted.res[1] # posted.res[2]
    /\ posted.res[2] # posted.res[3]

\* C27: every message a queue accepted gets exactly one result on its
\* one-shot channel, Ok (Joined) or Err (Failed): a result once sent is never
\* replaced, and when every request to a peer returns or times out the
\* result is sent eventually.
C27_ExactlyOneResult ==
    /\ [][\A i \in Ids : result[i] # "none" =>
              /\ result[i] \in {"ok", "err"}
              /\ kind[i] \in {"Read", "Ban", "Unban"}
              /\ result'[i] = result[i]]_vars
    /\ \A i \in Ids : (kind[i] \in {"Read", "Ban", "Unban"}) ~> (result[i] \in {"ok", "err"})

\* A read ended Failed and a write ended Joined.
C27_Witness ==
    \E i, j \in Ids :
        /\ IsRead(i)
        /\ result[i] = "err"
        /\ IsWrite(j)
        /\ result[j] = "ok"

Holds(p, i) == lock[p].writer = i \/ i \in lock[p].readers

\* C29: for read, ban and unban a peer takes the map lock only after both
\* transports of the request are established (its own connection to the
\* successor and the predecessor's streams), holds it from before the
\* oblivious-map operation starts until after the operation has returned,
\* and a request whose rendezvous failed never takes the lock.
C29_LockAfterRendezvous ==
    /\ [](\A p \in Peers, i \in Ids :
            ~IsPrune(i) =>
                /\ (Holds(p, i) => hpc[p][i] \in {"exec", "store"})
                /\ (hpc[p][i] \in {"exec", "store"} => Holds(p, i)))
    /\ [][\A p \in Peers, i \in Ids :
            ~IsPrune(i) =>
                /\ ((~Holds(p, i) /\ Holds(p, i)') =>
                       /\ hpc[p][i] \in {"wait_prev", "lock"}
                       /\ hpc[p][i] = "wait_prev" => Connected(Prev3(p), i)
                       /\ hpc'[p][i] = "exec")
                /\ ((Holds(p, i) /\ ~Holds(p, i)') =>
                       hpc'[p][i] \in {"done_ok", "done_err"})
                /\ ((hpc[p][i] \in {"idle", "wait_prev"} /\ hpc'[p][i] = "done_err") =>
                       ~Holds(p, i) /\ ~Holds(p, i)')]_vars

\* A ban or unban is in its operation under the write lock at one peer,
\* while at another peer the same request has failed and the lock is free.
C29_Witness ==
    \E p, q \in Peers, i \in Ids :
        /\ IsWrite(i)
        /\ hpc[p][i] = "exec"
        /\ lock[p].writer = i
        /\ hpc[q][i] = "done_err"
        /\ lock[q] = [writer |-> 0, readers |-> {}]

\* The handler of read, ban or unban i at peer p has returned (it was not
\* dropped at an await by its server).
HandlerReturned(p, i) ==
    /\ ~IsPrune(i)
    /\ hpc[p][i] \in {"done_ok", "done_err"}
    /\ token[p][i] # "dropped"

\* C30: every read, ban or unban request at a peer has cancelled its
\* cancellation token when it returns, on every exit: success, failure of
\* the oblivious-map operation, and prev-peer wait timeout.
C30_TokenCancelledOnExit ==
    \A p \in Peers, i \in Ids : HandlerReturned(p, i) => token[p][i] = "cancelled"

\* The first field of the request, in the order of the handler, whose payload
\* is not sound; 0 when all are sound.
FirstBadField ==
    IF \A n \in 1..Len(dec_req.payloads) : dec_req.payloads[n] = "ok" THEN 0
    ELSE CHOOSE n \in 1..Len(dec_req.payloads) :
            /\ dec_req.payloads[n] # "ok"
            /\ \A k \in 1..(n - 1) : dec_req.payloads[k] = "ok"

Suspended == {c \in 1..Len(calls) : calls[c].op = "get" /\ calls[c].st = "pending"}

\* C32: while a get is suspended waiting for its counterpart the registry
\* mutex is free: a get and an insert for any session id, the insert that
\* fulfils the waiter included, can take the mutex and complete.
C32_MutexFreeWhileWaiting ==
    Suspended # {} =>
        /\ sess_mutex = 0
        /\ Len(calls) < MaxCalls =>
              \A id \in SessionIds : (ENABLED Get(id)) /\ (ENABLED Insert(id))

\* While the first call, a get, was suspended, a call for the other session
\* id completed; then the insert for the get's id handed it its stream.
C32_Witness ==
    /\ Len(calls) >= 3
    /\ calls[1].op = "get"
    /\ calls[2].id # calls[1].id
    /\ calls[2].st = "ok"
    /\ calls[3].op = "insert"
    /\ calls[3].id = calls[1].id
    /\ calls[1].st = "ok"
    /\ calls[1].got = calls[3].ws

\* This step makes a call of `op` for session id.
Arrives(op, id) ==
    /\ Len(calls') = Len(calls) + 1
    /\ calls'[Len(calls')].op = op
    /\ calls'[Len(calls')].id = id

\* C33: an entry whose counterpart never arrives stays in the session table:
\* a Ready leaves the table only in a step in which a get for its id
\* arrives, a Waiter (that of a get given up by the prev-peer wait timeout
\* included) only in a step in which an insert for its id arrives.
C33_OrphanStays ==
    [][\A id \in SessionIds :
        /\ (sessions[id].tag = "Ready" /\ sessions'[id] # sessions[id]) => Arrives("get", id)
        /\ (sessions[id].tag = "Waiter" /\ sessions'[id] # sessions[id]) => Arrives("insert", id)]_vars


\* The payloads whose send has returned Ok, in the order of the calls.
Accepted == SelectSeq([n \in 1..Len(tx_log) |-> n], LAMBDA n : tx_log[n] = "ok")

\* C36: the send and the recv channel of a neighbour never hold more than 32
\* payloads; while the sender task runs, the accepted payloads are, in order
\* and each once, the ones written to the socket followed by the ones
\* queued; a send that finds the channel full leaves it as it is and waits,
\* and a waiting send returns Ok only when the channel has room again.
C36_Backpressure ==
    /\ [](/\ Len(tx_ch) <= NetCap
          /\ Len(rx_ch) <= NetCap
          /\ "sender" \in pipe_tasks => tx_wire \o tx_ch = Accepted)
    /\ [][/\ (Len(tx_log') > Len(tx_log) /\ Len(tx_ch) = NetCap /\ "sender" \in pipe_tasks)
              => (tx_log'[Len(tx_log')] = "wait" /\ tx_ch' = tx_ch)
          /\ (tx_log # <<>> /\ tx_log[Len(tx_log)] = "wait" /\ tx_log'[Len(tx_log)] = "ok")
              => (Len(tx_ch) < NetCap /\ tx_ch' = Append(tx_ch, Len(tx_log)))]_vars

\* A send waits on the full channel, after the sender task has written one.
C36_Witness ==
    /\ Len(tx_ch) = NetCap
    /\ tx_wire = <<1>>
    /\ tx_log # <<>>
    /\ tx_log[Len(tx_log)] = "wait"


\* C35: the Err of a non-binary message is the last item the reader task puts
\* on the recv channel, and the task has stopped once it is there; the recv
\* that finds it at the head of the channel returns it, and every recv after
\* that one fails with the channel closed: none returns data.
C35_NonBinaryEndsDirection ==
    /\ [](/\ \A i \in 1..Len(rx_ch) : rx_ch[i] = 0 => i = Len(rx_ch)
          /\ (\E i \in 1..Len(rx_ch) : rx_ch[i] = 0) => "reader" \notin pipe_tasks
          /\ \A i \in 1..Len(rx_got) : rx_got[i] = 0 =>
                /\ "reader" \notin pipe_tasks
                /\ \A j \in (i + 1)..Len(rx_got) : rx_got[j] = -1)
    /\ [][(rx_ch # <<>> /\ Head(rx_ch) = 0 /\ Len(rx_got') > Len(rx_got))
              => rx_got'[Len(rx_got')] = 0]_vars

\* Data was received, then the Err of the non-binary message, then a recv
\* found the channel closed.
C35_Witness == rx_got = <<1, 0, -1>>


\* C40: as long as no recv has returned an error, the i-th recv has returned
\* the payload of the i-th send, which had returned Ok: the payloads come out
\* in the order they were sent, each once.
C40_FifoExactlyOnce ==
    \A i \in 1..Len(rx_got) :
        (\A j \in 1..i : rx_got[j] > 0) =>
            /\ rx_got[i] = i
            /\ i <= Len(tx_log)
            /\ tx_log[i] = "ok"

\* All the payloads sent have crossed the socket and have been received.
C40_Witness == rx_got = [n \in 1..MaxWire |-> n] /\ rx_sock = MaxWire


C39_MapEqualsSnapshot ==
    \A p \in Peers : lock[p].writer = 0 => oblivious_map[p] = db[p]


\* C37: when all three peers run init_ws_mpc_nets for a request, no get
\* fails, and as long as some peer lacks a stream a step of the rendezvous
\* can be taken: it ends with every peer holding its forward and its
\* backward stream of both sessions.
C37_RendezvousCompletes ==
    /\ \A p \in Peers : rv_pc[p] # "err"
    /\ \A p \in Peers : rv_pc[p] = "done" => rv_fwd[p] = {0, 1} /\ rv_bwd[p] = {0, 1}
    /\ (\E p \in Peers : rv_pc[p] # "done") => ENABLED RvNext

\* All three peers have their four streams and the registries are empty.
C37_Witness ==
    /\ \A p \in Peers : rv_pc[p] = "done" /\ rv_fwd[p] = {0, 1} /\ rv_bwd[p] = {0, 1}
    /\ \A p \in Peers : rv_fly[p] = {} /\ \A s \in 0..1 : rv_reg[p][s] = "none"

====
